---------------------------- MODULE Spec2Model ----------------------------
(***************************************************************************)
(* A model of trifle/twitterresearch: the ingestion pipeline of            *)
(* database.py (create_tweet_from_dict and its helpers over the peewee     *)
(* tables) and its queries over date ranges, the rate-limited request      *)
(* client and the paging generators of rest.py, and the reconnecting       *)
(* stream client of streaming.py with the lines it reads and dispatches.   *)
(*                                                                         *)
(* Conventions.                                                            *)
(*  - A Python str is a sequence of one-character strings, so that         *)
(*    str.lower() is computed character by character.                      *)
(*  - A nullable column or an optional payload value is a sequence of      *)
(*    length at most one: <<>> is None / NULL, <<v>> is the value v.       *)
(*  - A table is the set of its rows; a many-to-many "through" table is a  *)
(*    bag of (tweet, target) pairs, its unique index is checked on insert. *)
(***************************************************************************)
EXTENDS Integers, Sequences, FiniteSets, Bags, TLC

(***************************************************************************)
(* Bounds of the model.                                                    *)
(***************************************************************************)
\* top-level calls of create_tweet_from_dict in one behaviour
MaxCalls == 2
\* deepest chain of retweeted_status payloads below a top-level payload
MaxNest == 2
\* calls of throttled_call in one behaviour
MaxRequests == 2
\* last tick of the model's clock
MaxTime == 6
\* requests one run of fetch_user_archive may send
MaxPages == 3
\* the longest id list handed to fetch_tweet_list
MaxIds == 201
\* the latest time at which the streaming client sees an error or a record
MaxClock == 3000
\* how many of its last steps stream_log keeps
LogWindow == 4
\* payloads loaded into the database before the queries are run
MaxRows == 2

(***************************************************************************)
(* Strings.                                                                *)
(***************************************************************************)
\* str.lower() on one character of the model's alphabet
LowerChar(c) ==
    CASE c = "V" -> "v"
      [] c = "O" -> "o"
      [] c = "T" -> "t"
      [] c = "E" -> "e"
      [] c = "X" -> "x"
      [] OTHER -> c

\* str.lower()
Lower(s) == [i \in DOMAIN s |-> LowerChar(s[i])]

\* the elements of a list
Range(l) == {l[i] : i \in DOMAIN l}

None == <<>>
Some(v) == <<v>>

(***************************************************************************)
(* Payloads: parsed tweets as the API delivers them.                       *)
(***************************************************************************)
TweetIds == {1, 2, 3}
UserIds == {1, 2}
ScreenNames == {<<"a", "n", "n">>, <<"b", "o", "b">>}
UserRefs == [id : UserIds, screen_name : ScreenNames]
Ann1 == [id |-> 1, screen_name |-> <<"a", "n", "n">>]
Ann2 == [id |-> 2, screen_name |-> <<"a", "n", "n">>]
Bob2 == [id |-> 2, screen_name |-> <<"b", "o", "b">>]

Texts == {<<"h", "i">>, <<"y", "o">>}
\* created_at: the wall-clock hour written in the string and its zone offset
CreatedAts == {[hour |-> 10, utcoffset |-> 0], [hour |-> 12, utcoffset |-> 2]}

Vote1 == <<"V", "o", "t", "e">>
Vote2 == <<"v", "o", "t", "e">>
Vote3 == <<"V", "O", "T", "E">>
HashtagLists == {<<>>, <<Vote1>>, <<Vote3>>, <<Vote1, Vote2>>}
UrlLists == {<<>>, <<<<"t", "/", "X">>>>, <<<<"T", "/", "x">>>>}
MentionLists == {<<>>, <<Ann2>>, <<Ann2, Ann2>>, <<Ann2, Bob2>>}

NoEntities == [hashtags |-> <<>>, urls |-> <<>>, user_mentions |-> <<>>]

\* a payload without retweeted_status
Status(id, user, text, created_at, entities, reply_user, reply_name, reply_status) ==
    [id |-> id, user |-> user, text |-> text, created_at |-> created_at,
     entities |-> entities,
     in_reply_to_user_id |-> reply_user,
     in_reply_to_screen_name |-> reply_name,
     in_reply_to_status_id |-> reply_status]

Plain(id, user) ==
    Status(id, user, <<"h", "i">>, [hour |-> 10, utcoffset |-> 0], NoEntities,
           None, None, None)

\* the payload p carrying the original payload q as its retweeted_status
Retweet(p, q) ==
    [k \in DOMAIN p \cup {"retweeted_status"} |->
        IF k = "retweeted_status" THEN q ELSE p[k]]

\* payloads that differ in author, text and date
ContentPayloads ==
    {Status(id, u, t, d, NoEntities, None, None, None) :
        id \in TweetIds, u \in UserRefs, t \in Texts, d \in CreatedAts}

\* payloads that differ in their entities
EntityPayloads ==
    {Status(id, Ann1, <<"h", "i">>, [hour |-> 10, utcoffset |-> 0],
            [hashtags |-> h, urls |-> u, user_mentions |-> m], None, None, None) :
        id \in TweetIds, h \in HashtagLists, u \in UrlLists, m \in MentionLists}

\* replies: the reply-target user, and a reply-target post that may not exist
ReplyPayloads ==
    {Status(id, u, <<"h", "i">>, [hour |-> 10, utcoffset |-> 0], NoEntities,
            Some(r.id), Some(r.screen_name), Some(s)) :
        id \in TweetIds, u \in {Ann1}, r \in UserRefs, s \in {2, 9}}

\* the entities of the payloads of retweets: none, a hashtag, or one user
\* mentioned under two names
OriginalEntities ==
    {NoEntities,
     [hashtags |-> <<Vote2>>, urls |-> <<>>, user_mentions |-> <<>>],
     [hashtags |-> <<>>, urls |-> <<>>, user_mentions |-> <<Ann2, Bob2>>]}
RetweetEntities ==
    {NoEntities,
     [hashtags |-> <<Vote3>>, urls |-> <<>>, user_mentions |-> <<>>],
     [hashtags |-> <<>>, urls |-> <<>>, user_mentions |-> <<Ann2, Bob2>>]}

\* the originals a retweet payload embeds
Originals ==
    {Status(id, u, <<"y", "o">>, [hour |-> 10, utcoffset |-> 0], e,
            None, None, None) :
        id \in TweetIds, u \in {Ann2, Bob2}, e \in OriginalEntities}

\* retweets: an outer payload around an original
RetweetPayloads ==
    {Retweet(Status(id, Ann1, <<"h", "i">>, [hour |-> 10, utcoffset |-> 0], e,
                    None, None, None), q) :
        id \in TweetIds, e \in RetweetEntities, q \in Originals}

\* chains of plain payloads nested n deep
RECURSIVE Chains(_)
Chains(n) ==
    IF n = 0 THEN {Plain(id, Ann1) : id \in TweetIds}
    ELSE {Retweet(Plain(id, Ann1), q) : id \in TweetIds, q \in Chains(n - 1)}

DeepPayloads == UNION {Chains(n) : n \in 2..MaxNest}

Payloads ==
    ContentPayloads \cup EntityPayloads \cup ReplyPayloads \cup RetweetPayloads
        \cup DeepPayloads

(***************************************************************************)
(* State.                                                                  *)
(***************************************************************************)
VARIABLES
    \* database.py: the tables of tweets.db
    User,            \* rows [id, username]
    Tweet,           \* rows [id, user, text, date, reply_to_user, reply_to_tweet, retweet]
    Hashtag,         \* rows: the tag (its own primary key)
    URL,             \* rows: the url (its own primary key)
    tweet_tags,      \* through table of Tweet.tags: bag of <<tweet, tag>>
    tweet_urls,      \* through table of Tweet.urls: bag of <<tweet, url>>
    tweet_mentions,  \* through table of Tweet.mentions: bag of <<tweet, user>>
    \* history of the calls of create_tweet_from_dict
    first_ref,       \* user id -> the screen_name of the first lookup of that id
    origin,          \* tweet id -> the call whose Tweet.create stored that row
    calls,           \* the top-level calls so far: arguments, outcome, tables before
    queried,         \* the query that was run last on the tables as they are
    \* rest.py
    rate_limit,      \* the module's rate_limit dict: [calls, expires]
    clock,           \* datetime.utcnow(), in seconds
    pc,              \* where the caller of throttled_call stands
    now,             \* throttled_call's local "now"
    time_to_reset,   \* wait_for_limit's local
    wake,            \* when the running time.sleep() may return
    pending,         \* how the try statement ends once its finally clause is done
    waited,          \* wait_for_limit has run in this iteration of the loop
    sent,            \* the last request handed to the transport
    returned,        \* the last response throttled_call returned
    nrequests,       \* calls of throttled_call so far
    \* rest.py, fetch_user_archive (a generator)
    status,          \* its local status
    max_id,          \* its local max_id
    tweets,          \* its local tweets: the decoded body of the last response
    archive_pc,      \* where the generator stands
    archive_log,     \* the requests it sent, each with the response it got
    \* rest.py, fetch_tweet_list (a generator)
    ids,             \* its argument
    list_pc,         \* where the generator stands
    list_log,        \* the "id" parameter of each lookup request it sent
    \* streaming.py
    last_error_date, \* the module's last_error_date
    last_error_wait, \* the module's last_error_wait
    stream,          \* stream()'s local stream: the response of auth.post
    stream_pc,       \* where stream() stands
    stream_log,      \* the last things stream() did, in order
    errors,          \* the last two calls of backoff
    DEFAULT_PARAMETERS, \* the module's DEFAULT_PARAMETERS dict
    on_tweet,        \* stream()'s argument: a tweet handler is given
    on_notification, \* stream()'s argument: a notification handler is given
    track,           \* stream()'s argument
    follow,          \* stream()'s argument
    url,             \* stream()'s local url
    posted,          \* the last connect request handed to auth.post
    records          \* the last two lines read from this connection

tablevars == <<User, Tweet, Hashtag, URL, tweet_tags, tweet_urls, tweet_mentions,
               first_ref, origin, calls>>
dbvars == <<tablevars, queried>>
restvars == <<rate_limit, clock, pc, now, time_to_reset, wake, pending, waited,
              sent, returned, nrequests>>
archivevars == <<status, max_id, tweets, archive_pc, archive_log>>
listvars == <<ids, list_pc, list_log>>
fetchvars == <<archivevars, listvars>>
feedvars == <<DEFAULT_PARAMETERS, on_tweet, on_notification, track, follow, url,
              posted, records>>
streamvars == <<last_error_date, last_error_wait, stream, stream_pc, stream_log,
                errors, feedvars>>
vars == <<dbvars, restvars, fetchvars, streamvars>>

\* the database (and the history kept beside it) as one value
DB ==
    [User |-> User, Tweet |-> Tweet, Hashtag |-> Hashtag, URL |-> URL,
     tweet_tags |-> tweet_tags, tweet_urls |-> tweet_urls,
     tweet_mentions |-> tweet_mentions,
     first_ref |-> first_ref, origin |-> origin]

\* the tables alone
Tables(db) ==
    [User |-> db.User, Tweet |-> db.Tweet, Hashtag |-> db.Hashtag, URL |-> db.URL,
     tweet_tags |-> db.tweet_tags, tweet_urls |-> db.tweet_urls,
     tweet_mentions |-> db.tweet_mentions]

(***************************************************************************)
(* The peewee operations database.py uses.                                 *)
(***************************************************************************)
\* a get_or_create that overwrites the username of the row it finds
User_get_or_create_updating(db, id, username) ==
    LET seen == [db EXCEPT !.first_ref =
                    IF id \in DOMAIN @ THEN @ ELSE @ @@ (id :> username)]
    IN  [db |-> [seen EXCEPT !.User = {r \in @ : r.id # id}
                                        \cup {[id |-> id, username |-> username]}],
         user |-> id]

\* a get_or_create that looks the user up by username
User_get_or_create_by_name(db, id, username) ==
    LET seen == [db EXCEPT !.first_ref =
                    IF id \in DOMAIN @ THEN @ ELSE @ @@ (id :> username)]
    IN  IF \E r \in db.User : r.username = username
        THEN [db |-> seen,
              user |-> (CHOOSE r \in db.User : r.username = username).id]
        ELSE [db |-> [seen EXCEPT !.User = @ \cup {[id |-> id, username |-> username]}],
              user |-> id]

\* User.get_or_create(id=id, defaults={'username': username}): the lookup is
\* by id alone; the defaults are used only when no row has that id.
User_get_or_create(db, id, username) ==
    LET seen == [db EXCEPT !.first_ref =
                    IF id \in DOMAIN @ THEN @ ELSE @ @@ (id :> username)]
    IN  IF \E r \in db.User : r.id = id
        THEN [db |-> seen, user |-> id]
        ELSE [db |-> [seen EXCEPT !.User = @ \cup {[id |-> id, username |-> username]}],
              user |-> id]

\* Hashtag.get_or_create(tag=h)
Hashtag_get_or_create(db, h) == [db EXCEPT !.Hashtag = @ \cup {h}]

\* URL.get_or_create(url=u)
URL_get_or_create(db, u) == [db EXCEPT !.URL = @ \cup {u}]

\* a Tweet.create on a table without a primary key: the row is always added
Tweet_create_unchecked(db, id, user, text, date) ==
    [ok |-> TRUE,
     db |-> [db EXCEPT !.Tweet = @ \cup
               {[id |-> id, user |-> user, text |-> text, date |-> date,
                 reply_to_user |-> None, reply_to_tweet |-> None,
                 retweet |-> None]}]]

\* a Tweet.create that replaces the row of the same id (INSERT OR REPLACE)
Tweet_create_replacing(db, id, user, text, date) ==
    [ok |-> TRUE,
     db |-> [db EXCEPT !.Tweet = {r \in @ : r.id # id} \cup
               {[id |-> id, user |-> user, text |-> text, date |-> date,
                 reply_to_user |-> None, reply_to_tweet |-> None,
                 retweet |-> None]}]]

\* Tweet.create(...): an INSERT; the primary key makes a second row with the
\* same id an IntegrityError.  The new row's other columns are NULL.
Tweet_create(db, id, user, text, date) ==
    IF \E r \in db.Tweet : r.id = id
    THEN [ok |-> FALSE, db |-> db]
    ELSE [ok |-> TRUE,
          db |-> [db EXCEPT !.Tweet = @ \cup
                    {[id |-> id, user |-> user, text |-> text, date |-> date,
                      reply_to_user |-> None, reply_to_tweet |-> None,
                      retweet |-> None]}]]

\* t.save() on a row that has its primary key: an UPDATE of every column of
\* the rows with that id.
Tweet_save(db, t) ==
    [db EXCEPT !.Tweet = {IF r.id = t.id THEN t ELSE r : r \in @}]

\* the bag of the elements of a list
RECURSIVE ListToBag(_)
ListToBag(l) ==
    IF l = <<>> THEN EmptyBag ELSE ListToBag(Tail(l)) (+) SetToBag({Head(l)})

\* t.<field> = values (ManyToManyField.__set__): the links of tweet t are
\* cleared, then one row per element of the list is inserted in one
\* statement; the unique index on (tweet, target) makes a repeated pair an
\* IntegrityError, and then no row of the statement is kept.
Through_set(through, t, values) ==
    LET cleared == [e \in {x \in DOMAIN through : x[1] # t} |-> through[e]]
        rows == ListToBag([i \in DOMAIN values |-> <<t, values[i]>>])
        after == cleared (+) rows
    IN  IF \E e \in DOMAIN after : after[e] > 1
        THEN [ok |-> FALSE, through |-> cleared]
        ELSE [ok |-> TRUE, through |-> after]

\* the value a ForeignKeyField writes for what was assigned to it: a model
\* object gives its primary key, anything else is coerced by int(), and
\* int(False) is 0
ForeignKeyValue(v) == IF v.is_tweet THEN Some(v.id) ELSE Some(0)

\* what create_tweet_from_dict returns: the Tweet object or False
ReturnTweet(id) == [is_tweet |-> TRUE, id |-> id]
ReturnFalse == [is_tweet |-> FALSE, id |-> 0]

\* the orders in which list(set(...)) may hand out the elements of S
Orders(S) == {l \in [1..Cardinality(S) -> S] : Range(l) = S}

(***************************************************************************)
(* database.py: helper functions for loading data.                         *)
(***************************************************************************)
\* a deduplicate_lowercase that forgets lower()
deduplicate_only(l) == CHOOSE deduplicated \in Orders(Range(l)) : TRUE

\* deduplicate_lowercase(l): the lower-cased elements, each once, as a list.
\* list(set(...)) fixes no order; the callers look each element up by its
\* key and insert the links in one statement, so one order stands for all.
deduplicate_lowercase(l) ==
    LET lowercase == [i \in DOMAIN l |-> Lower(l[i])]
    IN  CHOOSE deduplicated \in Orders(Range(lowercase)) : TRUE

\* create_user_from_tweet(tweet)
create_user_from_tweet(db, tweet) ==
    User_get_or_create(db, tweet.user.id, tweet.user.screen_name)

\* create_hashtags_from_entities(entities)
create_hashtags_from_entities(db, entities) ==
    LET tags == deduplicate_lowercase(entities.hashtags)
        RECURSIVE loop(_, _)
        loop(d, l) == IF l = <<>> THEN d
                      ELSE loop(Hashtag_get_or_create(d, Head(l)), Tail(l))
    IN  [db |-> loop(db, tags), tags |-> tags]

\* create_urls_from_entities(entities)
create_urls_from_entities(db, entities) ==
    LET urls == deduplicate_lowercase(entities.urls)
        RECURSIVE loop(_, _)
        loop(d, l) == IF l = <<>> THEN d
                      ELSE loop(URL_get_or_create(d, Head(l)), Tail(l))
    IN  [db |-> loop(db, urls), urls |-> urls]

\* the loop of create_users_from_entities over the list users
RECURSIVE GetOrCreateUsers(_, _)
GetOrCreateUsers(db, users) ==
    IF users = <<>> THEN [db |-> db, users |-> <<>>]
    ELSE LET first == User_get_or_create(db, Head(users)[1], Head(users)[2])
             rest == GetOrCreateUsers(first.db, Tail(users))
         IN  [db |-> rest.db, users |-> <<first.user>> \o rest.users]

\* create_users_from_entities(entities): the (id, screen_name) pairs are
\* deduplicated as pairs and looked up in the order list(set(...)) gives,
\* which is any order; the returned list has one entry per pair.
create_users_from_entities(db, entities) ==
    LET pairs == {<<u.id, u.screen_name>> : u \in Range(entities.user_mentions)}
    IN  {GetOrCreateUsers(db, l) : l \in Orders(pairs)}

\* parser.parse(created_at).strftime("%Y-%m-%d %H:%M:%S"): the wall-clock
\* fields of the parsed time, as written in the string
StoredDate(created_at) == created_at.hour

(***************************************************************************)
(* database.py: create_tweet_from_dict.                                    *)
(*                                                                         *)
(* The function is modelled by the set of its possible outcomes            *)
(* [db, ret, depth]: the database it leaves, the value it returns and the  *)
(* number of nested calls of itself below it.  Every statement of peewee   *)
(* is committed as it runs (there is no transaction around the function),  *)
(* so what was written before an IntegrityError stays written.             *)
(***************************************************************************)
\* lines 300-305: the three many-to-many assignments, each skipped for an
\* empty list; [ok, db], ok false when one of them raised IntegrityError
AttachEntities(db, id, tags, urls, mentions) ==
    LET a == IF tags # <<>> THEN Through_set(db.tweet_tags, id, tags)
             ELSE [ok |-> TRUE, through |-> db.tweet_tags]
        db1 == [db EXCEPT !.tweet_tags = a.through]
        b == IF urls # <<>> THEN Through_set(db1.tweet_urls, id, urls)
             ELSE [ok |-> TRUE, through |-> db1.tweet_urls]
        db2 == [db1 EXCEPT !.tweet_urls = b.through]
        c == IF mentions # <<>> THEN Through_set(db2.tweet_mentions, id, mentions)
             ELSE [ok |-> TRUE, through |-> db2.tweet_mentions]
        db3 == [db2 EXCEPT !.tweet_mentions = c.through]
    IN  IF ~a.ok THEN [ok |-> FALSE, db |-> db1]
        ELSE IF ~b.ok THEN [ok |-> FALSE, db |-> db2]
        ELSE [ok |-> c.ok, db |-> db3]

\* lines 306-314: the reply target; [db, t] with t the in-memory Tweet object
SetReplyTarget(db, tweet, t) ==
    IF tweet.in_reply_to_user_id # None /\ tweet.in_reply_to_user_id # Some(0)
    THEN LET reply_to_user_dict ==
                 [user |-> [id |-> tweet.in_reply_to_user_id[1],
                            screen_name |-> tweet.in_reply_to_screen_name[1]]]
             r == create_user_from_tweet(db, reply_to_user_dict)
         IN  [db |-> r.db,
              t |-> [t EXCEPT !.reply_to_user = Some(r.user),
                              !.reply_to_tweet = tweet.in_reply_to_status_id]]
    ELSE [db |-> db, t |-> t]

\* the row a successful Tweet.create(id, user, text, date) has stored
NewTweet(id, user, text, date) ==
    [id |-> id, user |-> user, text |-> text, date |-> date,
     reply_to_user |-> None, reply_to_tweet |-> None, retweet |-> None]

\* line 316: the author argument of the nested call (none is passed)
NestedAuthor(user) == None

\* create_tweet_from_dict(tweet, user=None); user is None or Some(user id)
RECURSIVE create_tweet_from_dict(_, _, _)
create_tweet_from_dict(db, tweet, user) ==
    LET \* lines 282-285
        a == IF user = None THEN create_user_from_tweet(db, tweet)
             ELSE [db |-> db, user |-> user[1]]
        h == create_hashtags_from_entities(a.db, tweet.entities)
        u == create_urls_from_entities(h.db, tweet.entities)
        date == StoredDate(tweet.created_at)
        \* lines 288-322, after create_users_from_entities gave m
        Rest(m) ==
            LET created == Tweet_create(m.db, tweet.id, a.user, tweet.text, date)
                noted == [created.db EXCEPT !.origin =
                             IF tweet.id \in DOMAIN @ THEN @
                             ELSE @ @@ (tweet.id :> [tweet |-> tweet, user |-> user])]
                linked == AttachEntities(noted, tweet.id, h.tags, u.urls, m.users)
                replied == SetReplyTarget(linked.db, tweet,
                               NewTweet(tweet.id, a.user, tweet.text, date))
            IN  IF ~created.ok
                THEN {[db |-> m.db, ret |-> ReturnFalse, depth |-> 0]}
                ELSE IF ~linked.ok
                THEN {[db |-> linked.db, ret |-> ReturnFalse, depth |-> 0]}
                ELSE IF "retweeted_status" \in DOMAIN tweet
                THEN {[db |-> Tweet_save(n.db,
                          [replied.t EXCEPT !.retweet = ForeignKeyValue(n.ret)]),
                       ret |-> ReturnTweet(tweet.id),
                       depth |-> 1 + n.depth] :
                         n \in create_tweet_from_dict(replied.db,
                                   tweet.retweeted_status, NestedAuthor(user))}
                ELSE {[db |-> Tweet_save(replied.db, replied.t),
                       ret |-> ReturnTweet(tweet.id), depth |-> 0]}
    IN  UNION {Rest(m) : m \in create_users_from_entities(u.db, tweet.entities)}

(***************************************************************************)
(* The ingestion machine: callers hand payloads to create_tweet_from_dict. *)
(***************************************************************************)
\* no query was run on the tables as they are
NoQuery == [fn |-> "none"]

InitDB ==
    /\ User = {} /\ Tweet = {} /\ Hashtag = {} /\ URL = {}
    /\ tweet_tags = EmptyBag /\ tweet_urls = EmptyBag /\ tweet_mentions = EmptyBag
    /\ first_ref = <<>> /\ origin = <<>>
    /\ calls = <<>>
    /\ queried = NoQuery

NoRequest == [made |-> FALSE]
NoResponse == [made |-> FALSE]

InitRest ==
    /\ rate_limit = [calls |-> 180, expires |-> 0]
    /\ clock = 0
    /\ pc = "idle"
    /\ now = 0
    /\ time_to_reset = 0
    /\ wake = 0
    /\ pending = [how |-> "none"]
    /\ waited = FALSE
    /\ sent = NoRequest
    /\ returned = NoResponse
    /\ nrequests = 0

\* fetch_user_archive, lines 195-196
InitArchive ==
    /\ status = 200
    /\ max_id = None
    /\ tweets = None
    /\ archive_pc = "while"
    /\ archive_log = <<>>

\* the id lists fetch_tweet_list is called with
IdLists == {[i \in 1..L |-> i] : L \in 0..MaxIds}

\* fetch_tweet_list is called with one of the given lists
InitList(lists) ==
    /\ ids \in lists
    /\ list_pc = "for"
    /\ list_log = <<>>

InitFetch == InitArchive /\ InitList({<<>>})

\* streaming.py, lines 56-57 and 65; stream() has not been called
InitStream ==
    /\ DEFAULT_PARAMETERS = [stall_warnings |-> "true", filter_level |-> "none"]
    /\ on_tweet = FALSE
    /\ on_notification = FALSE
    /\ track = None
    /\ follow = None
    /\ url = ""
    /\ posted = None
    /\ records = <<>>
    /\ last_error_date = None
    /\ last_error_wait = 0
    /\ stream = None
    /\ stream_pc = "idle"
    /\ stream_log = <<>>
    /\ errors = <<>>

\* one call create_tweet_from_dict(tweet, user) with outcome r
Store(tweet, user, r) ==
    /\ User' = r.db.User
    /\ Tweet' = r.db.Tweet
    /\ Hashtag' = r.db.Hashtag
    /\ URL' = r.db.URL
    /\ tweet_tags' = r.db.tweet_tags
    /\ tweet_urls' = r.db.tweet_urls
    /\ tweet_mentions' = r.db.tweet_mentions
    /\ first_ref' = r.db.first_ref
    /\ origin' = r.db.origin
    /\ calls' = Append(calls, [tweet |-> tweet, user |-> user, ret |-> r.ret,
                                depth |-> r.depth, before |-> Tables(DB)])
    /\ queried' = NoQuery
    /\ UNCHANGED <<restvars, fetchvars, streamvars>>

\* create_tweet_from_dict(tweet), as every caller in examples.py calls it
Ingest ==
    /\ Len(calls) < MaxCalls
    /\ \E tweet \in Payloads :
         \E r \in create_tweet_from_dict(DB, tweet, None) :
            Store(tweet, None, r)

\* create_tweet_from_dict(tweet, user) with a stored user given as author
IngestAs ==
    /\ Len(calls) < MaxCalls
    /\ \E tweet \in ContentPayloads, u \in User :
         \E r \in create_tweet_from_dict(DB, tweet, Some(u.id)) :
            Store(tweet, Some(u.id), r)

NextIngest == Ingest \/ IngestAs

InitIngest == InitDB /\ InitRest /\ InitFetch /\ InitStream

SpecIngest == InitIngest /\ [][NextIngest]_vars

(***************************************************************************)
(* Properties of the ingestion.                                            *)
(***************************************************************************)
\* the tables after the j-th top-level call returned
After(j) == IF j = Len(calls) THEN Tables(DB) ELSE calls[j + 1].before

\* the rows of table T with primary key id
RowsWithId(T, id) == {r \in T : r.id = id}

\* the targets tweet id is linked to in a through table
LinksOf(through, id) == {e[2] : e \in {x \in DOMAIN through : x[1] = id}}

\* the user ids a payload mentions
MentionedIds(tweet) == {m.id : m \in Range(tweet.entities.user_mentions)}

\* a payload that mentions one user id under two screen names
MentionsTwice(tweet) ==
    \E m1, m2 \in Range(tweet.entities.user_mentions) :
        m1.id = m2.id /\ m1.screen_name # m2.screen_name

C2_RepostCreatesBoth ==
    \A j \in DOMAIN calls :
        LET p == calls[j].tweet
        IN  ( /\ "retweeted_status" \in DOMAIN p
              /\ p.id # p.retweeted_status.id
              /\ RowsWithId(calls[j].before.Tweet, p.id) = {}
              /\ RowsWithId(calls[j].before.Tweet, p.retweeted_status.id) = {} )
            => \E y, x \in After(j).Tweet :
                  /\ y.id = p.id
                  /\ x.id = p.retweeted_status.id
                  /\ y.retweet = Some(x.id)
                  /\ x.user = p.retweeted_status.user.id

\* C3, the case of an original that was stored before the call: a call that
\* returned the Tweet of a retweet payload whose original X already had a
\* row leaves that Tweet's retweet column holding X.
C3_RepostOfStoredOriginal ==
    \A j \in DOMAIN calls :
        LET p == calls[j].tweet
        IN  ( /\ calls[j].ret.is_tweet
              /\ "retweeted_status" \in DOMAIN p
              /\ RowsWithId(calls[j].before.Tweet, p.retweeted_status.id) # {} )
            => /\ \A y \in RowsWithId(After(j).Tweet, p.id) :
                     y.retweet = Some(p.retweeted_status.id)
               /\ RowsWithId(After(j).Tweet, p.retweeted_status.id) # {}

\* C4: a call that returned False has added no Tweet row and no link of a
\* tweet to a hashtag, a url or a mentioned user.
C4_AllOrNothing ==
    \A j \in DOMAIN calls :
        ~calls[j].ret.is_tweet
        => /\ After(j).Tweet = calls[j].before.Tweet
           /\ After(j).tweet_tags = calls[j].before.tweet_tags
           /\ After(j).tweet_urls = calls[j].before.tweet_urls
           /\ After(j).tweet_mentions = calls[j].before.tweet_mentions

C6_CaseFolded ==
    /\ \A h1, h2 \in Hashtag : Lower(h1) = Lower(h2) => h1 = h2
    /\ \A u1, u2 \in URL : Lower(u1) = Lower(u2) => u1 = u2
    /\ \A r \in Tweet :
          /\ \A x \in Range(origin[r.id].tweet.entities.hashtags) :
                Lower(x) \in Hashtag /\ CopiesIn(<<r.id, Lower(x)>>, tweet_tags) = 1
          /\ \A x \in Range(origin[r.id].tweet.entities.urls) :
                Lower(x) \in URL /\ CopiesIn(<<r.id, Lower(x)>>, tweet_urls) = 1
    /\ \A e \in DOMAIN tweet_tags : tweet_tags[e] = 1
    /\ \A e \in DOMAIN tweet_urls : tweet_urls[e] = 1

\* three posts used "Vote", "vote" and "VOTE": one Hashtag row, three links
C6_Witness ==
    /\ Hashtag = {Vote2}
    /\ \E r1, r2, r3 \in Tweet :
          /\ Vote1 \in Range(origin[r1.id].tweet.entities.hashtags)
          /\ Vote2 \in Range(origin[r2.id].tweet.entities.hashtags)
          /\ Vote3 \in Range(origin[r3.id].tweet.entities.hashtags)
          /\ Cardinality({r1.id, r2.id, r3.id}) = 3
          /\ \A r \in {r1, r2, r3} : LinksOf(tweet_tags, r.id) = {Vote2}

\* C7: a User row's username is the screen_name of the first lookup of its
\* id, whatever names later payloads carry for that id.
C7_UsernameWriteOnce ==
    /\ \A u1, u2 \in User : u1.id = u2.id => u1 = u2
    /\ \A u \in User : u.id \in DOMAIN first_ref /\ u.username = first_ref[u.id]

\* a later payload named a stored user otherwise, as author, as mention and
\* as reply target
C7_Witness ==
    /\ Len(calls) = 2
    /\ \E u \in calls[2].before.User :
          /\ u \in User
          /\ \/ /\ calls[2].tweet.user.id = u.id
                /\ calls[2].tweet.user.screen_name # u.username
                /\ calls[2].user = None
             \/ \E m \in Range(calls[2].tweet.entities.user_mentions) :
                   m.id = u.id /\ m.screen_name # u.username
             \/ /\ calls[2].tweet.in_reply_to_user_id = Some(u.id)
                /\ calls[2].tweet.in_reply_to_screen_name # Some(u.username)
                /\ calls[2].ret.is_tweet

\* C8: a post's author, mentions and reply target are the users with the ids
\* its payload referenced; every id that was looked up has a row of its own.
C8_UsersById ==
    /\ \A u1, u2 \in User : u1.id = u2.id => u1 = u2
    /\ \A id \in DOMAIN first_ref : RowsWithId(User, id) # {}
    /\ \A r \in Tweet :
          LET o == origin[r.id]
          IN  /\ r.user = (IF o.user = None THEN o.tweet.user.id ELSE o.user[1])
              /\ LinksOf(tweet_mentions, r.id) \subseteq MentionedIds(o.tweet)
              /\ r.reply_to_user \in {None, o.tweet.in_reply_to_user_id}

\* two users share a name; a post of one of them mentions or answers the other
C8_Witness ==
    \E u1, u2 \in User :
        /\ u1.id # u2.id
        /\ u1.username = u2.username
        /\ \E r \in Tweet :
              /\ r.user = u1.id
              /\ \/ u2.id \in LinksOf(tweet_mentions, r.id)
                 \/ r.reply_to_user = Some(u2.id)

\* C9: some limit below the deepest nesting of the payloads bounds the
\* number of nested calls of every top-level call.
C9_DepthGuarded ==
    \E limit \in 0..(MaxNest - 1) : \A j \in DOMAIN calls : calls[j].depth <= limit

(***************************************************************************)
(* rest.py: throttled_call and wait_for_limit.                             *)
(*                                                                         *)
(* Time is the clock in whole seconds; it advances between any two steps.  *)
(* time.sleep(d) returns once the clock has reached the time of the call   *)
(* plus d, and raises ValueError for a negative d.                         *)
(***************************************************************************)
\* the safety margin of line 116
SafetyMargin == 5
\* the pacing delay of line 133
PacingDelay == 1

\* what the transport may answer: the headers x-rate-limit-remaining and
\* x-rate-limit-reset, each present or not
Remainings == {0, 4, 5, 180}
Responses ==
    [remaining : {None} \cup {Some(n) : n \in Remainings},
     reset : {None} \cup {Some(t) : t \in 0..MaxTime}]

\* the condition of line 116 with the margin the comment of line 114 names
MustWait_below_four(limit, t) == limit.calls < 4 /\ limit.expires > t

\* line 116: the condition under which throttled_call waits
MustWait(limit, t) == limit.calls < SafetyMargin /\ limit.expires > t

\* an update that takes the remaining calls but keeps the reset time it has
UpdatedLimit_keeping_expires(limit, response) ==
    [calls |-> IF response.remaining # None THEN response.remaining[1] ELSE 0,
     expires |-> limit.expires]

\* lines 121-123: the budget after a response
UpdatedLimit(limit, response) ==
    [calls |-> IF response.remaining # None THEN response.remaining[1] ELSE 0,
     expires |-> IF response.reset # None THEN response.reset[1] ELSE limit.expires]

\* a caller enters throttled_call
Call ==
    /\ pc = "idle"
    /\ nrequests < MaxRequests
    /\ nrequests' = nrequests + 1
    /\ pc' = "loop"
    /\ sent' = NoRequest
    /\ UNCHANGED <<rate_limit, clock, now, time_to_reset, wake, pending, waited,
                   returned>>
    /\ UNCHANGED <<dbvars, fetchvars, streamvars>>

\* lines 113-117: the top of the loop reads the clock and decides to wait
CheckLimit ==
    /\ pc = "loop"
    /\ now' = clock
    /\ waited' = FALSE
    /\ pc' = IF MustWait(rate_limit, clock) THEN "wait_for_limit" ELSE "try"
    /\ UNCHANGED <<rate_limit, clock, time_to_reset, wake, pending, sent, returned,
                   nrequests>>
    /\ UNCHANGED <<dbvars, fetchvars, streamvars>>

\* wait_for_limit, lines 90-97: the clock is read again and time.sleep is
\* called with the difference; a negative one raises out of throttled_call
\* (line 117 is outside the try statement)
WaitForLimit ==
    /\ pc = "wait_for_limit"
    /\ time_to_reset' = rate_limit.expires - clock
    /\ waited' = TRUE
    /\ IF time_to_reset' < 0
       THEN pc' = "raised" /\ wake' = wake
       ELSE pc' = "limit_sleep" /\ wake' = clock + time_to_reset'
    /\ UNCHANGED <<rate_limit, clock, now, pending, sent, returned, nrequests>>
    /\ UNCHANGED <<dbvars, fetchvars, streamvars>>

\* time.sleep(time_to_reset) returns
LimitReached ==
    /\ pc = "limit_sleep"
    /\ clock >= wake
    /\ pc' = "try"
    /\ UNCHANGED <<rate_limit, clock, now, time_to_reset, wake, pending, waited,
                   sent, returned, nrequests>>
    /\ UNCHANGED <<dbvars, fetchvars, streamvars>>

\* line 119: auth.get hands the request to the transport; sent remembers the
\* attempt: its number within this call, the clock and the budget it left
\* with, and later how the transport answered it
Send ==
    /\ pc = "try"
    /\ sent' = [made |-> TRUE, at |-> clock, calls |-> rate_limit.calls,
                expires |-> rate_limit.expires, waited |-> waited,
                attempt |-> IF sent.made THEN sent.attempt + 1 ELSE 1,
                outcome |-> "none", response |-> None]
    /\ pc' = "get"
    /\ UNCHANGED <<rate_limit, clock, now, time_to_reset, wake, pending, waited,
                   returned, nrequests>>
    /\ UNCHANGED <<dbvars, fetchvars, streamvars>>

\* lines 119-124 and 133: the transport answers; the budget is updated and
\* the finally clause starts its pause
Respond ==
    /\ pc = "get"
    /\ \E response \in Responses :
         /\ rate_limit' = UpdatedLimit(rate_limit, response)
         /\ pending' = [how |-> "return", response |-> response]
         /\ sent' = [sent EXCEPT !.outcome = "response", !.response = Some(response)]
    /\ wake' = clock + PacingDelay
    /\ pc' = "pause"
    /\ UNCHANGED <<clock, now, time_to_reset, waited, returned, nrequests>>
    /\ UNCHANGED <<dbvars, fetchvars, streamvars>>

\* a handler that lets ReadTimeout and ConnectTimeout go on to the caller
Timeout_raising ==
    /\ pc = "get"
    /\ pending' = [how |-> "raise"]
    /\ sent' = [sent EXCEPT !.outcome = "timeout"]
    /\ wake' = clock + PacingDelay
    /\ pc' = "pause"
    /\ UNCHANGED <<rate_limit, clock, now, time_to_reset, waited, returned,
                   nrequests>>
    /\ UNCHANGED <<dbvars, fetchvars, streamvars>>

\* lines 128-133: ReadTimeout or ConnectTimeout is caught and logged
Timeout ==
    /\ pc = "get"
    /\ pending' = [how |-> "retry"]
    /\ sent' = [sent EXCEPT !.outcome = "timeout"]
    /\ wake' = clock + PacingDelay
    /\ pc' = "pause"
    /\ UNCHANGED <<rate_limit, clock, now, time_to_reset, waited, returned,
                   nrequests>>
    /\ UNCHANGED <<dbvars, fetchvars, streamvars>>

\* any other exception of auth.get: not caught, raised after the finally clause
Fault ==
    /\ pc = "get"
    /\ pending' = [how |-> "raise"]
    /\ sent' = [sent EXCEPT !.outcome = "fault"]
    /\ wake' = clock + PacingDelay
    /\ pc' = "pause"
    /\ UNCHANGED <<rate_limit, clock, now, time_to_reset, waited, returned,
                   nrequests>>
    /\ UNCHANGED <<dbvars, fetchvars, streamvars>>

\* a finally clause without its time.sleep(1)
Paused_at_once ==
    /\ pc = "pause"
    /\ pc' = CASE pending.how = "return" -> "idle"
               [] pending.how = "retry" -> "loop"
               [] OTHER -> "raised"
    /\ returned' = IF pending.how = "return"
                   THEN [made |-> TRUE, response |-> pending.response]
                   ELSE returned
    /\ pending' = [how |-> "none"]
    /\ UNCHANGED <<rate_limit, clock, now, time_to_reset, wake, waited, sent,
                   nrequests>>
    /\ UNCHANGED <<dbvars, fetchvars, streamvars>>

\* line 133: time.sleep(1) returns and the try statement ends: the response
\* is returned, the loop starts over, or the exception goes on
Paused ==
    /\ pc = "pause"
    /\ clock >= wake
    /\ pc' = CASE pending.how = "return" -> "idle"
               [] pending.how = "retry" -> "loop"
               [] OTHER -> "raised"
    /\ returned' = IF pending.how = "return"
                   THEN [made |-> TRUE, response |-> pending.response]
                   ELSE returned
    /\ pending' = [how |-> "none"]
    /\ UNCHANGED <<rate_limit, clock, now, time_to_reset, wake, waited, sent,
                   nrequests>>
    /\ UNCHANGED <<dbvars, fetchvars, streamvars>>

\* a second passes
Tick ==
    /\ clock < MaxTime
    /\ clock' = clock + 1
    /\ UNCHANGED <<rate_limit, pc, now, time_to_reset, wake, pending, waited, sent,
                   returned, nrequests>>
    /\ UNCHANGED <<dbvars, fetchvars, streamvars>>

NextRest ==
    \/ Call \/ CheckLimit \/ WaitForLimit \/ LimitReached \/ Send
    \/ Respond \/ Timeout \/ Fault \/ Paused \/ Tick

InitRestSpec == InitDB /\ InitRest /\ InitFetch /\ InitStream

SpecRest == InitRestSpec /\ [][NextRest]_vars

\* the steps throttled_call takes by itself once it is called, and the clock:
\* a single thread runs them and no time.sleep lasts forever; when the
\* transport answers, and how, is left open
RestFairness ==
    /\ WF_vars(CheckLimit) /\ WF_vars(WaitForLimit) /\ WF_vars(LimitReached)
    /\ WF_vars(Send) /\ WF_vars(Paused) /\ WF_vars(Tick)

SpecRestLive == InitRestSpec /\ [][NextRest]_vars /\ RestFairness

TweetList(l) == [type |-> "list", items |-> [i \in DOMAIN l |-> [id |-> l[i]]]]
\* json.loads(result.text): a dict with the given keys
Dict(keys) == [type |-> "dict", keys |-> keys]

\* the timelines the platform serves, newest first
ArchiveIds == {<<>>, <<1>>, <<2>>, <<3>>, <<4>>, <<2, 1>>, <<3, 2>>, <<4, 3>>, <<4, 2>>}
\* the dicts it answers with
ArchiveDicts == {{}, {"errors"}, {"error", "request"}}
\* the rate-limit headers of its answers
ArchiveHeaders ==
    {[remaining |-> Some(4), reset |-> Some(1)], [remaining |-> None, reset |-> None]}

\* the smallest element of a non-empty set of numbers
Min(S) == CHOOSE x \in S : \A y \in S : x <= y

\* the responses to a timeline request with the given max_id parameter: the
\* platform serves no tweet with an id above max_id
ArchiveResponses(cursor) ==
    [status_code : {200, 401},
     headers : ArchiveHeaders,
     body : {TweetList(l) : l \in {l \in ArchiveIds :
                  cursor = None \/ \A i \in DOMAIN l : l[i] <= cursor[1]}}
            \cup {Dict(keys) : keys \in ArchiveDicts}]

\* Python's truth value of max_id (line 199: "if max_id")
Truthy(m) == m # None /\ m[1] # 0

\* line 203: not tweets
Empty(body) ==
    IF body.type = "list" THEN Len(body.items) = 0 ELSE body.keys = {}

\* line 205: 'errors' in tweets; the members of a list of tweets are dicts
HasErrors(body) == body.type = "dict" /\ "errors" \in body.keys

\* lines 209-212: the new max_id and the yield of the page; iterating over a
\* dict yields its keys, and t['id'] of a key (a str) raises TypeError
NextCursor(body) ==
    IF body.type = "list"
    THEN /\ max_id' = Some(Min({body.items[i].id : i \in DOMAIN body.items}) - 1)
         /\ archive_pc' = "yield tweets"
    ELSE /\ max_id' = max_id
         /\ archive_pc' = "TypeError"

\* the users whose archive is fetched, by id or by screen name, and the
\* optional parameters the caller gives
ArchiveUsers == {[type |-> "int", value |-> "1"], [type |-> "str", value |-> "pascal"]}
ArchiveKwargs == {<<>>, "count" :> 50}

\* the count of line 169 when the caller gives none
DefaultCount == 200

\* fetch_user_tweets(user, **kwargs), lines 169-176: the params handed to
\* throttled_call
fetch_user_tweets(user, kwargs) ==
    LET counted == IF "count" \in DOMAIN kwargs THEN kwargs
                   ELSE kwargs @@ ("count" :> DefaultCount)
    IN  IF user.type = "int" THEN ("user_id" :> user.value) @@ counted
        ELSE ("screen_name" :> user.value) @@ counted

\* line 199: the call of fetch_user_tweets, with max_id and the caller's
\* parameters when max_id is true, and with the user alone when it is not
ArchiveParams(user, cursor, kwargs) ==
    IF Truthy(cursor)
    THEN fetch_user_tweets(user, ("max_id" :> cursor[1]) @@ kwargs)
    ELSE fetch_user_tweets(user, <<>>)

\* lines 197-212: one pass of the loop up to its first yield, break or
\* exception; the log keeps the arguments of the walk with each request
ArchiveRequest ==
    /\ archive_pc = "while"
    /\ Len(archive_log) < MaxPages
    /\ LET cursor == IF Truthy(max_id) THEN max_id ELSE None
       IN  \E response \in ArchiveResponses(cursor),
              user \in IF archive_log = <<>> THEN ArchiveUsers
                       ELSE {archive_log[1].user},
              kwargs \in IF archive_log = <<>> THEN ArchiveKwargs
                         ELSE {archive_log[1].kwargs} :
             /\ archive_log' = Append(archive_log,
                                      [max_id |-> cursor, response |-> response,
                                       user |-> user, kwargs |-> kwargs,
                                       params |-> ArchiveParams(user, max_id, kwargs)])
             /\ rate_limit' = UpdatedLimit(rate_limit, response.headers)
             /\ status' = response.status_code
             /\ tweets' = Some(response.body)
             /\ IF Empty(response.body)
                THEN archive_pc' = "return" /\ max_id' = max_id
                ELSE IF HasErrors(response.body)
                     THEN archive_pc' = "yield False" /\ max_id' = max_id
                     ELSE NextCursor(response.body)
    /\ UNCHANGED <<clock, pc, now, time_to_reset, wake, pending, waited, sent,
                   returned, nrequests>>
    /\ UNCHANGED <<dbvars, listvars, streamvars>>

\* the consumer resumes the generator after "yield False": lines 209-212
ArchiveResumeFalse ==
    /\ archive_pc = "yield False"
    /\ NextCursor(tweets[1])
    /\ UNCHANGED <<status, tweets, archive_log>>
    /\ UNCHANGED <<dbvars, restvars, listvars, streamvars>>

\* the consumer resumes the generator after "yield tweets": line 197
ArchiveResume ==
    /\ archive_pc = "yield tweets"
    /\ archive_pc' = IF status = 200 THEN "while" ELSE "return"
    /\ UNCHANGED <<status, max_id, tweets, archive_log>>
    /\ UNCHANGED <<dbvars, restvars, listvars, streamvars>>

NextArchive == ArchiveRequest \/ ArchiveResumeFalse \/ ArchiveResume

InitArchiveSpec == InitDB /\ InitRest /\ InitFetch /\ InitStream

SpecArchive == InitArchiveSpec /\ [][NextArchive]_vars

(***************************************************************************)
(* Properties of fetch_user_archive.                                       *)
(***************************************************************************)
\* the smallest id of a page
MinId(body) == Min({body.items[i].id : i \in DOMAIN body.items})

\* C13: every request after the first carries max_id = (the smallest id of
\* the page received before it) - 1.
C13_CursorFollowsPage ==
    \A i \in DOMAIN archive_log :
        i > 1 => archive_log[i].max_id
                    = Some(MinId(archive_log[i - 1].response.body) - 1)

\* a response after which the archive is to stop: an empty page or a status
\* other than 200
Stopping(response) == Empty(response.body) \/ response.status_code # 200

\* C14: a response with an empty body or a status other than 200 is the
\* last one requested, and the generator raises nothing after it.
C14_StopsCleanly ==
    \A i \in DOMAIN archive_log :
        Stopping(archive_log[i].response)
            => i = Len(archive_log) /\ archive_pc # "TypeError"

\* C38: every request of fetch_user_archive carries the optional parameters
\* the caller gave, with the values given.
C38_KwargsOnEveryRequest ==
    \A i \in DOMAIN archive_log :
        \A k \in DOMAIN archive_log[i].kwargs :
            /\ k \in DOMAIN archive_log[i].params
            /\ archive_log[i].params[k] = archive_log[i].kwargs[k]

(***************************************************************************)
(* rest.py: grouper, fetch_tweets and fetch_tweet_list.  The elements of a *)
(* chunk are Some(v) for a value v of the iterable, or the fill value.     *)
(***************************************************************************)
\* the chunk size of line 248
BatchSize == 100

\* lines 79-80: zip_longest over n references to one iterator takes the
\* values n at a time and fills the last chunk up with fillvalue
grouper(iterable, n, fillvalue) ==
    [g \in 1..((Len(iterable) + n - 1) \div n) |->
        [k \in 1..n |->
            IF (g - 1) * n + k <= Len(iterable)
            THEN Some(iterable[(g - 1) * n + k])
            ELSE fillvalue]]

\* str(i) for an element of a chunk
Str(e) == IF e = None THEN "None" ELSE ToString(e[1])

\* line 231: the parts of the comma-separated "id" parameter
IdParameter(page) == [k \in DOMAIN page |-> Str(page[k])]

\* lines 248-251: the next chunk is looked up (the assertion of line 226
\* holds) and the decoded body is yielded
ListRequest ==
    /\ list_pc = "for"
    /\ LET pages == grouper(ids, BatchSize, None)
       IN  /\ Len(list_log) < Len(pages)
           /\ Len(pages[Len(list_log) + 1]) <= BatchSize
           /\ list_log' = Append(list_log, IdParameter(pages[Len(list_log) + 1]))
    /\ \E headers \in ArchiveHeaders : rate_limit' = UpdatedLimit(rate_limit, headers)
    /\ list_pc' = "yield tweets"
    /\ UNCHANGED <<ids, clock, pc, now, time_to_reset, wake, pending, waited, sent,
                   returned, nrequests>>
    /\ UNCHANGED <<dbvars, archivevars, streamvars>>

\* the consumer resumes the generator: the next chunk, or the end
ListResume ==
    /\ list_pc = "yield tweets"
    /\ list_pc' = "for"
    /\ UNCHANGED <<ids, list_log>>
    /\ UNCHANGED <<dbvars, restvars, archivevars, streamvars>>

\* the chunks are used up: the generator returns
ListReturn ==
    /\ list_pc = "for"
    /\ Len(list_log) = Len(grouper(ids, BatchSize, None))
    /\ list_pc' = "return"
    /\ UNCHANGED <<ids, list_log>>
    /\ UNCHANGED <<dbvars, restvars, archivevars, streamvars>>

NextList == ListRequest \/ ListResume \/ ListReturn

InitListSpec == InitDB /\ InitRest /\ InitArchive /\ InitList(IdLists) /\ InitStream

SpecList == InitListSpec /\ [][NextList]_vars

(***************************************************************************)
(* rest.py: fetch_users and fetch_user_list_by_id.  The generator keeps    *)
(* its place in list_pc and the "user_id" parameters it sent in list_log.  *)
(***************************************************************************)
\* the chunk size of line 293
UserBatchSize == 100

\* the names bound at module level in rest.py, lines 37-300
Globals ==
    {"ReadTimeout", "ConnectTimeout", "twitter_auth", "itertools", "json",
     "time", "datetime", "logging", "auth", "rate_limit", "USER_TIMELINE_URL",
     "TWEETS_URL", "USERS_URL", "SEARCH_URL", "grouper", "wait_for_limit",
     "throttled_call", "search_tweets", "fetch_user_tweets",
     "fetch_user_archive", "fetch_tweets", "fetch_tweet_list", "fetch_users",
     "fetch_user_list_by_id", "fetch_user_list_by_screen_name"}

\* the names bound in fetch_user_list_by_id when line 296 runs
UserListLocals == {"ids", "kwargs", "pages", "page", "result", "users"}

\* the names line 296 evaluates besides the builtin len
LoggedNames == {"logging", "tweets", "rate_limit"}

\* line 296: a name that is bound neither in the function nor in the module
\* raises NameError; otherwise line 297 yields the users
AfterUsersLogged ==
    IF LoggedNames \subseteq UserListLocals \cup Globals
    THEN "yield users" ELSE "NameError"

\* lines 294-297: fetch_users looks the next chunk up (the assertion of line
\* 267 holds, line 272 joins the ids), then line 296 logs the result
UserListRequest ==
    /\ list_pc = "for"
    /\ LET pages == grouper(ids, UserBatchSize, None)
       IN  /\ Len(list_log) < Len(pages)
           /\ Len(pages[Len(list_log) + 1]) <= 100
           /\ list_log' = Append(list_log, IdParameter(pages[Len(list_log) + 1]))
    /\ \E headers \in ArchiveHeaders : rate_limit' = UpdatedLimit(rate_limit, headers)
    /\ list_pc' = AfterUsersLogged
    /\ UNCHANGED <<ids, clock, pc, now, time_to_reset, wake, pending, waited, sent,
                   returned, nrequests>>
    /\ UNCHANGED <<dbvars, archivevars, streamvars>>

\* line 294: no chunk is left, the generator returns
UserListReturn ==
    /\ list_pc = "for"
    /\ Len(list_log) = Len(grouper(ids, UserBatchSize, None))
    /\ list_pc' = "return"
    /\ UNCHANGED <<ids, list_log>>
    /\ UNCHANGED <<dbvars, restvars, archivevars, streamvars>>

NextUsers == UserListRequest \/ UserListReturn

SpecUsers == InitListSpec /\ [][NextUsers]_vars

\* C37: for a list of ids that is not empty, fetch_user_list_by_id raises
\* nothing, and when it is done it has asked for one page of users per chunk
\* of 100 ids, the chunks naming the ids of the list in order.
C37_UserPagesYielded ==
    ids # <<>>
        => /\ list_pc # "NameError"
           /\ list_pc = "return"
                => /\ Len(list_log) = (Len(ids) + UserBatchSize - 1) \div UserBatchSize
                   /\ \A i \in DOMAIN list_log :
                         \A k \in DOMAIN list_log[i] :
                            (i - 1) * UserBatchSize + k <= Len(ids)
                                => list_log[i][k] = ToString(ids[(i - 1) * UserBatchSize + k])

(***************************************************************************)
(* Properties of fetch_tweet_list.                                         *)
(***************************************************************************)
\* the concatenation of the sequences of a sequence
RECURSIVE Flatten(_)
Flatten(ll) == IF ll = <<>> THEN <<>> ELSE Head(ll) \o Flatten(Tail(ll))

\* C15: when fetch_tweet_list is done it has sent ceil(L/100) requests, each
\* naming at most 100 ids, and the ids named, in the order sent, are the
\* input ids and nothing else.
C15_BatchesCoverIds ==
    list_pc = "return"
        => /\ Len(list_log) = (Len(ids) + BatchSize - 1) \div BatchSize
           /\ \A i \in DOMAIN list_log : Len(list_log[i]) <= BatchSize
           /\ Flatten(list_log) = [k \in DOMAIN ids |-> ToString(ids[k])]

(***************************************************************************)
(* streaming.py: backoff and stream.                                       *)
(*                                                                         *)
(* Time is the clock in seconds.  stream_log lists the calls of stream(),  *)
(* its transport actions (post, close, iter_lines), its calls of backoff   *)
(* with the time.sleep they made, and the exceptions that left stream().   *)
(***************************************************************************)
\* line 102: half an hour, in seconds
ResetAfter == 1800
\* line 107: the floor of the wait on a rate limiting error, before doubling
RateLimitFloor == 30
\* line 114: the longest wait on a technical error
TechnicalCap == 320
\* line 117
Irrecoverable == {401, 403, 404, 406, 413, 416}

\* the larger of two numbers
Max(a, b) == IF a >= b THEN a ELSE b

\* lines 93-96: the seconds since the last call of backoff
time_since_error(date, t) == IF date # None THEN t - date[1] ELSE 1800

\* a reset that waits for more than half an hour without an error
base_sleep_after_more(wait, since) == IF since <= ResetAfter THEN wait ELSE 1

\* line 102
base_sleep(wait, since) == IF since < ResetAfter THEN wait ELSE 1

\* a wait on a rate limiting error that is not doubled
RateLimitSleep_not_doubled(base) == Max(base, RateLimitFloor)

\* line 107: the wait on a rate limiting error
RateLimitSleep(base) == Max(base, RateLimitFloor) * 2

\* a wait on a technical error that has no cap
TechnicalSleep_uncapped(base) == Max(base * 2, 5)

\* lines 112-114: the wait on a technical error; max(base_sleep, 2.5) * 2 is
\* computed as max(base_sleep * 2, 5)
TechnicalSleep(base) ==
    IF Max(base * 2, 5) <= TechnicalCap THEN Max(base * 2, 5) ELSE TechnicalCap

\* a classification that takes 401 for a technical error
Raises_but_401(errorcode) ==
    IF errorcode = 420 \/ errorcode \in {503, 401} THEN "none"
    ELSE IF errorcode \in Irrecoverable THEN "IrrecoverableStreamException"
    ELSE "ValueError"

\* lines 105-122: the exception backoff raises for an error code, if any
Raises(errorcode) ==
    IF errorcode = 420 \/ errorcode \in {503} THEN "none"
    ELSE IF errorcode \in Irrecoverable THEN "IrrecoverableStreamException"
    ELSE "ValueError"

\* backoff(errorcode), lines 90-127, called at time t with the globals
\* last_error_date = date and last_error_wait = wait: the new globals, the
\* exception raised ("none" when it returns) and the time slept
backoff(date, wait, t, errorcode) ==
    LET base == base_sleep(wait, time_since_error(date, t))
        sleep == IF errorcode = 420 THEN RateLimitSleep(base)
                                    ELSE TechnicalSleep(base)
    IN  IF Raises(errorcode) = "none"
        THEN [last_error_date |-> Some(t), last_error_wait |-> sleep,
              exc |-> "none", sleep |-> Some(sleep)]
        ELSE [last_error_date |-> Some(t), last_error_wait |-> wait,
              exc |-> Raises(errorcode), sleep |-> None]

\* the last n elements of a sequence
LastN(l, n) == IF Len(l) <= n THEN l ELSE SubSeq(l, Len(l) - n + 1, Len(l))

\* one entry of stream_log
Event(op, code) == [op |-> op, code |-> code]

\* stream_log after the steps evs
Logged(evs) == LastN(stream_log \o evs, LogWindow)

\* errors after a call of backoff at time t with outcome b; beside the
\* call it notes whether any call came before it and the time the last call
\* that slept had slept
Noted(t, code, b) ==
    LastN(Append(errors,
                 [at |-> t, code |-> code, sleep |-> b.sleep, exc |-> b.exc,
                  first |-> errors = <<>>,
                  applied |-> IF errors = <<>> THEN None
                              ELSE IF errors[Len(errors)].sleep # None
                                   THEN errors[Len(errors)].sleep
                                   ELSE errors[Len(errors)].applied]),
          2)

\* the status codes of the answers to a connect attempt
Statuses == {200, 420, 503, 500} \cup Irrecoverable

\* the distances between one error and the next that the model tries
Distances == {300, 1799, 1800, 2400}

\* the times at which the next error may be seen: the first one now, every
\* other one at one of the given distances from the one before, once the
\* sleep that followed that one is over
LaterBy(distances) ==
    IF last_error_date = None
    THEN {clock}
    ELSE {t \in {last_error_date[1] + d : d \in distances} :
             t >= clock /\ t <= MaxClock}

Later == LaterBy(Distances)

\* Python's truth value of a list argument that may be None
Given(arg) == arg # None /\ Len(arg[1]) > 0

\* lines 62-63
SAMPLE_URL == "sample.json"
FILTER_URL == "filter.json"

\* lines 153-164: stream() is called (again, after an exception left it)
\* with handlers that are registered or not and with filters from the given
\* sets; parameters is another name of the module's DEFAULT_PARAMETERS dict,
\* so the assignments of lines 158 and 161 write to that dict
StreamCallWith(tweet_handlers, notification_handlers, tracks, follows) ==
    /\ stream_pc \in {"idle", "raised"}
    /\ \E h \in tweet_handlers, n \in notification_handlers,
          tr \in tracks, fo \in follows :
         /\ on_tweet' = h
         /\ on_notification' = n
         /\ track' = tr
         /\ follow' = fo
         /\ IF Given(tr)
            THEN /\ DEFAULT_PARAMETERS' = [k \in DOMAIN DEFAULT_PARAMETERS \cup {"track"} |->
                        IF k = "track" THEN tr[1] ELSE DEFAULT_PARAMETERS[k]]
                 /\ url' = FILTER_URL
            ELSE IF Given(fo)
                 THEN /\ DEFAULT_PARAMETERS' = [k \in DOMAIN DEFAULT_PARAMETERS \cup {"follow"} |->
                             IF k = "follow" THEN fo[1] ELSE DEFAULT_PARAMETERS[k]]
                      /\ url' = FILTER_URL
                 ELSE /\ DEFAULT_PARAMETERS' = DEFAULT_PARAMETERS
                      /\ url' = SAMPLE_URL
    /\ stream_pc' = "while"
    /\ stream_log' = Logged(<<Event("call", 0)>>)
    /\ records' = <<>>
    /\ UNCHANGED <<last_error_date, last_error_wait, stream, errors, posted>>
    /\ UNCHANGED <<dbvars, restvars, fetchvars>>

\* stream() is called without arguments
StreamCall == StreamCallWith({FALSE}, {FALSE}, {None}, {None})

\* lines 166-169: auth.post is answered at time t with a status code; a
\* status other than 200 closes the response and calls backoff, which sleeps
\* and returns or raises out of stream() (line 169 is outside the try
\* statement)
ConnectWith(codes, distances) ==
    /\ stream_pc = "while"
    /\ posted' = Some([url |-> url, data |-> DEFAULT_PARAMETERS])
    /\ records' = <<>>
    /\ \E code \in codes :
         IF code = 200
         THEN /\ stream' = Some([status_code |-> code, closed |-> FALSE])
              /\ stream_log' = Logged(<<Event("post", code)>>)
              /\ stream_pc' = "for"
              /\ UNCHANGED <<last_error_date, last_error_wait, errors, clock>>
         ELSE \E t \in LaterBy(distances) :
              LET b == backoff(last_error_date, last_error_wait, t, code)
                  failed == <<Event("post", code), Event("close", code)>>
              IN  /\ stream' = Some([status_code |-> code, closed |-> TRUE])
                  /\ last_error_date' = b.last_error_date
                  /\ last_error_wait' = b.last_error_wait
                  /\ errors' = Noted(t, code, b)
                  /\ IF b.exc = "none"
                     THEN /\ stream_log' =
                                Logged(failed \o <<Event("sleep", b.sleep[1])>>)
                          /\ clock' = t + b.sleep[1]
                          /\ stream_pc' = "for"
                     ELSE /\ stream_log' =
                                Logged(failed \o <<Event(b.exc, code)>>)
                          /\ clock' = t
                          /\ stream_pc' = "raised"
    /\ UNCHANGED <<on_tweet, on_notification, track, follow, url, DEFAULT_PARAMETERS>>
    /\ UNCHANGED <<rate_limit, pc, now, time_to_reset, wake, pending, waited, sent,
                   returned, nrequests>>
    /\ UNCHANGED <<dbvars, fetchvars>>

Connect == ConnectWith(Statuses, Distances)

\* lines 170-171 and 194-195 on a response that was closed: iter_lines is
\* called on it and yields no line, or raises an exception that line 194
\* catches; either way the while loop goes on
IterClosed ==
    /\ stream_pc = "for"
    /\ stream[1].closed
    /\ stream_log' = Logged(<<Event("iter_lines", stream[1].status_code)>>)
    /\ stream_pc' = "while"
    /\ UNCHANGED <<last_error_date, last_error_wait, stream, errors, feedvars>>
    /\ UNCHANGED <<dbvars, restvars, fetchvars>>

\* lines 171 and 194-195 on an open response: the platform ends the
\* connection, or reading it fails with an exception that line 194 catches
ReadEnd ==
    /\ stream_pc = "for"
    /\ ~stream[1].closed
    /\ stream_log' = Logged(<<Event("iter_lines", stream[1].status_code)>>)
    /\ stream_pc' = "while"
    /\ UNCHANGED <<last_error_date, last_error_wait, stream, errors, feedvars>>
    /\ UNCHANGED <<dbvars, restvars, fetchvars>>

\* the codes of the disconnect notices of the platform
DisconnectCodes == {1, 2}

\* a line of the stream: blank, text that is no JSON document, or a JSON
\* object with its keys and, under "disconnect", a code or none
Line(kind, keys, code) == [kind |-> kind, keys |-> keys, code |-> code]

\* disconnect notices with the given codes, alone or with the given other
\* keys
Notices(codes, others) ==
    {Line("json", {"disconnect"} \cup k, c) : k \in others, c \in codes}

\* line 179: data['disconnect'].get('code', 1)
NoticeCode(line) == IF line.code = None THEN 1 ELSE line.code[1]

\* lines 173-186: the handler that a line is handed to, given which handlers
\* are registered: "none" when no handler is called
Dispatch_falling_through(line, tweet_handler, notification_handler) ==
    IF line.kind # "json" THEN "none"
    ELSE IF "disconnect" \in line.keys THEN "none"
    ELSE IF "text" \in line.keys /\ tweet_handler THEN "on_tweet"
    ELSE IF line.keys # {} /\ notification_handler THEN "on_notification"
    ELSE "none"
Dispatch(line, tweet_handler, notification_handler) ==
    IF line.kind # "json" THEN "none"
    ELSE IF "disconnect" \in line.keys THEN "none"
    ELSE IF "text" \in line.keys
         THEN IF tweet_handler THEN "on_tweet" ELSE "none"
    ELSE IF line.keys # {} /\ notification_handler THEN "on_notification"
    ELSE "none"

\* Python's exceptions that do not derive from Exception
BaseExceptions == {"KeyboardInterrupt", "SystemExit"}

\* the exceptions that line 190 names
Interrupts_without_SystemExit == {"KeyboardInterrupt"}
Interrupts == {"KeyboardInterrupt", "SystemExit"}

\* lines 187-188: except Exception catches what is raised while a line is
\* handled, unless it is one of the exceptions that do not derive from
\* Exception
InnerCatches_nothing(exc) == FALSE
InnerCatches(exc) == exc \notin BaseExceptions

\* what is remembered of a line that was read: the handlers called for it,
\* the exception raised while it was handled, and where that left stream()
Record(line, handler, exc, at, closed) ==
    [line |-> line,
     handlers |-> IF handler = "none" THEN <<>> ELSE <<handler>>,
     exc |-> exc, pc_after |-> at, closed_after |-> closed]
Recorded(r) == LastN(Append(records, r), 2)

\* lines 171-179 and 187-188: a disconnect notice is read at time t: the
\* response is closed and backoff is called with the notice's code; what
\* backoff raises is caught at line 187 and the for loop goes on
ReadNotice(codes, others, distances) ==
    /\ stream_pc = "for"
    /\ ~stream[1].closed
    /\ \E t \in LaterBy(distances), line \in Notices(codes, others) :
         LET code == NoticeCode(line)
             b == backoff(last_error_date, last_error_wait, t, code)
             caught == b.exc = "none" \/ InnerCatches(b.exc)
         IN  /\ stream' = Some([stream[1] EXCEPT !.closed = TRUE])
             /\ last_error_date' = b.last_error_date
             /\ last_error_wait' = b.last_error_wait
             /\ errors' = Noted(t, code, b)
             /\ stream_log' =
                    Logged(<<Event("notice", code),
                             Event("close", stream[1].status_code)>>
                           \o (IF b.exc = "none"
                               THEN <<Event("sleep", b.sleep[1])>>
                               ELSE IF caught THEN <<>>
                               ELSE <<Event(b.exc, code)>>))
             /\ clock' = IF b.exc = "none" THEN t + b.sleep[1] ELSE t
             /\ stream_pc' = IF caught THEN "for" ELSE "while"
             /\ records' = Recorded(Record(line,
                               Dispatch(line, on_tweet, on_notification),
                               b.exc, stream_pc', TRUE))
    /\ UNCHANGED <<on_tweet, on_notification, track, follow, url, DEFAULT_PARAMETERS,
                   posted>>
    /\ UNCHANGED <<rate_limit, pc, now, time_to_reset, wake, pending, waited, sent,
                   returned, nrequests>>
    /\ UNCHANGED <<dbvars, fetchvars>>

ReadDisconnect == ReadNotice({Some(c) : c \in DisconnectCodes}, {{}}, Distances)

\* the lines that are no disconnect notice
Lines ==
    {Line("blank", {}, None), Line("garbage", {}, None)}
        \cup {Line("json", k, None) : k \in SUBSET {"text", "event"}}

\* how a call of a handler ends
HandlerOutcomes == {"return", "Exception"} \cup BaseExceptions

\* lines 171-195: one line that is no disconnect notice is read from the
\* open response and handled: json.loads raises ValueError on a line that is
\* no JSON document, and a handler returns or raises. An exception is caught
\* at line 187 (the for loop goes on), at line 190 (the response is closed
\* and the exception raised anew) or at line 194 (the while loop goes on),
\* or it leaves stream() uncaught
ReadRecord ==
    /\ stream_pc = "for"
    /\ ~stream[1].closed
    /\ \E line \in Lines, outcome \in HandlerOutcomes :
         LET handler == Dispatch(line, on_tweet, on_notification)
             exc == IF line.kind = "garbage" THEN "ValueError"
                    ELSE IF handler # "none" /\ outcome # "return" THEN outcome
                    ELSE "none"
         IN  /\ handler = "none" => outcome = "return"
             /\ IF exc = "none" \/ InnerCatches(exc)
                THEN /\ stream_pc' = "for"
                     /\ UNCHANGED <<stream, stream_log>>
                ELSE IF exc \in Interrupts
                THEN /\ stream_pc' = "raised"
                     /\ stream' = Some([stream[1] EXCEPT !.closed = TRUE])
                     /\ stream_log' =
                            Logged(<<Event("close", stream[1].status_code),
                                     Event(exc, 0)>>)
                ELSE IF exc \notin BaseExceptions
                THEN /\ stream_pc' = "while"
                     /\ stream_log' =
                            Logged(<<Event("iter_lines", stream[1].status_code)>>)
                     /\ UNCHANGED stream
                ELSE /\ stream_pc' = "raised"
                     /\ stream_log' = Logged(<<Event(exc, 0)>>)
                     /\ UNCHANGED stream
             /\ records' = Recorded(Record(line, handler, exc, stream_pc',
                                           stream'[1].closed))
    /\ UNCHANGED <<last_error_date, last_error_wait, errors, on_tweet, on_notification,
                   track, follow, url, DEFAULT_PARAMETERS, posted>>
    /\ UNCHANGED <<dbvars, restvars, fetchvars>>

\* lines 171 and 190-193: KeyboardInterrupt or SystemExit is raised while
\* iter_lines waits for the next line
Interrupt ==
    /\ stream_pc = "for"
    /\ \E exc \in BaseExceptions :
         IF exc \in Interrupts
         THEN /\ stream_log' = Logged(<<Event("close", stream[1].status_code),
                                        Event(exc, 0)>>)
              /\ stream' = Some([stream[1] EXCEPT !.closed = TRUE])
         ELSE /\ stream_log' = Logged(<<Event(exc, 0)>>)
              /\ UNCHANGED stream
    /\ stream_pc' = "raised"
    /\ UNCHANGED <<last_error_date, last_error_wait, errors, feedvars>>
    /\ UNCHANGED <<dbvars, restvars, fetchvars>>

NextStream == StreamCall \/ Connect \/ IterClosed \/ ReadEnd \/ ReadDisconnect

InitStreamSpec == InitDB /\ InitRest /\ InitFetch /\ InitStream

SpecStream == InitStreamSpec /\ [][NextStream]_vars

\* stream() is called with or without handlers, without filters
FeedCall == StreamCallWith(BOOLEAN, BOOLEAN, {None}, {None})

\* the answers to a connect attempt, and the distance of an error from the
\* one before: errors of the same second
FeedStatuses == {200, 401}
FeedDistances == {0}
FeedConnect == ConnectWith(FeedStatuses, FeedDistances)

\* the disconnect notices that are read: without a code, with a code of the
\* platform's list, with a code that backoff gives up on; alone or with a
\* text
FeedNotice ==
    ReadNotice({None, Some(4), Some(401)}, {{}, {"text"}}, FeedDistances)

NextFeed ==
    FeedCall \/ FeedConnect \/ IterClosed \/ ReadEnd \/ FeedNotice \/ ReadRecord
        \/ Interrupt

SpecFeed == InitStreamSpec /\ [][NextFeed]_vars

\* the filters that stream() is called with
Tracks == {None, Some(<<"#cdu">>)}
Follows == {None, Some(<<"1">>)}

\* stream() is called without handlers, with or without filters
FilterCall == StreamCallWith({FALSE}, {FALSE}, Tracks, Follows)

NextFilter == FilterCall \/ FeedConnect \/ ReadEnd \/ Interrupt

SpecFilter == InitStreamSpec /\ [][NextFilter]_vars

(***************************************************************************)
(* Properties of backoff and stream.                                       *)
(***************************************************************************)
\* the last call of backoff and the one before it
LastError == errors[Len(errors)]
PrevError == errors[Len(errors) - 1]
\* the last call of backoff came a given number of seconds after another
ErrorsApart(d) == Len(errors) = 2 /\ LastError.at - PrevError.at = d

\* C16: a connect attempt answered with 401, 403, 404, 406, 413 or 416 is
\* followed by the close of the response and by IrrecoverableStreamException
\* leaving stream(): no sleep, and no connect attempt unless stream() is
\* called anew.
C16_FatalStatusRaises ==
    \A i \in DOMAIN stream_log :
        (stream_log[i].op = "post" /\ stream_log[i].code \in Irrecoverable)
            => /\ i + 2 <= Len(stream_log)
               /\ stream_log[i + 1].op = "close"
               /\ stream_log[i + 2].op = "IrrecoverableStreamException"
               /\ IF i + 2 = Len(stream_log)
                  THEN stream_pc = "raised" /\ LastError.sleep = None
                  ELSE stream_log[i + 3].op = "call"

\* stream() has just raised IrrecoverableStreamException for a status 416
C16_Witness ==
    /\ stream_pc = "raised"
    /\ stream_log # <<>>
    /\ stream_log[Len(stream_log)] = [op |-> "IrrecoverableStreamException", code |-> 416]

\* C17 as stated: the first error, a 420, waits 30 s; a 420 five minutes
\* after it waits 60 s; a 420 forty minutes after the previous error waits
\* 30 s.
C17_QuotaWaits30Then60 ==
    /\ (errors # <<>> /\ LastError.first /\ LastError.code = 420)
            => LastError.sleep = Some(30)
    /\ (ErrorsApart(300) /\ PrevError.first /\ PrevError.code = 420
                    /\ LastError.code = 420)
            => LastError.sleep = Some(60)
    /\ (ErrorsApart(2400) /\ LastError.code = 420)
            => LastError.sleep = Some(30)

\* C17, amended: the first error, a 420, waits 60 s; a 420 five minutes
\* after it waits 120 s; a 420 forty minutes after the previous error waits
\* 60 s.
C17_QuotaWaits60Then120 ==
    /\ (errors # <<>> /\ LastError.first /\ LastError.code = 420)
            => LastError.sleep = Some(60)
    /\ (ErrorsApart(300) /\ PrevError.first /\ PrevError.code = 420
                    /\ LastError.code = 420)
            => LastError.sleep = Some(120)
    /\ (ErrorsApart(2400) /\ LastError.code = 420)
            => LastError.sleep = Some(60)

\* a 420 forty minutes after a 420 that had waited 120 s
C17_Witness ==
    /\ ErrorsApart(2400)
    /\ LastError.code = 420
    /\ PrevError.code = 420
    /\ PrevError.sleep = Some(120)

\* the wait applied before the last error, 0 when there was none
AppliedBefore == IF LastError.applied = None THEN 0 ELSE LastError.applied[1]

C19_TechnicalWaitBounded ==
    (errors # <<>> /\ LastError.code = 503)
        => /\ LastError.sleep # None
           /\ LastError.sleep[1] >= 5
           /\ LastError.sleep[1] <= 320

\* a 503 less than 1800 s after a 420 that had waited 480 s
C19_Witness ==
    /\ Len(errors) = 2
    /\ LastError.code = 503
    /\ PrevError.code = 420
    /\ PrevError.sleep = Some(480)
    /\ LastError.at - PrevError.at < 1800

\* C20: after a connect attempt answered with 420 or 503 the response is
\* closed, backoff sleeps, and the next thing stream() does with the
\* transport is another connect attempt.
C20_ReconnectsAfterBackoff ==
    \A i \in DOMAIN stream_log :
        (stream_log[i].op = "post" /\ stream_log[i].code \in {420, 503})
            => /\ i + 1 <= Len(stream_log) => stream_log[i + 1].op = "close"
               /\ i + 2 <= Len(stream_log) => stream_log[i + 2].op = "sleep"
               /\ i + 3 <= Len(stream_log) => stream_log[i + 3].op = "post"

(***************************************************************************)
(* database.py: the queries.                                               *)
(*                                                                         *)
(* Time is counted in minutes from 2015-10-27 00:00.  A datetime is the    *)
(* minute its wall-clock fields name and its tzinfo: none, or the offset   *)
(* of its zone from UTC in minutes.  A date in SQL is a text; the          *)
(* characters of the date and the time of day are one symbol of the text,  *)
(* the minute they name, and a zone offset written behind them is the      *)
(* second symbol.                                                          *)
(***************************************************************************)
MinutesPerHour == 60
MinutesPerDay == 1440

Datetime(minute, tzinfo) == [minute |-> minute, tzinfo |-> tzinfo]

\* pytz.utc and pytz.timezone("MST"), which is seven hours behind UTC
utc == Some(0)
MST == Some(0 - 7 * MinutesPerHour)

\* to_utc(dt): a naive datetime is taken as UTC (utc.localize), an aware one
\* is converted to UTC (utc.normalize)
to_utc(dt) ==
    IF dt.tzinfo = None
    THEN Datetime(dt.minute, utc)
    ELSE Datetime(dt.minute - dt.tzinfo[1], utc)

\* datetime + timedelta
Plus(dt, delta) == Datetime(dt.minute + delta, dt.tzinfo)

\* lines 511-515: the timedelta of an interval name
timedelta(interval) ==
    CASE interval = "minute" -> 1
      [] interval = "hour" -> MinutesPerHour
      [] interval = "day" -> MinutesPerDay

\* the text in the date column of a Tweet row: "%Y-%m-%d %H:%M:%S" of line
\* 297, which writes no zone offset
DateText(date) == <<date * MinutesPerHour>>

\* the text that is bound to a query for a datetime: isoformat(" "), which
\* ends with the zone offset when the datetime is aware
IsoFormat(dt) ==
    IF dt.tzinfo = None THEN <<dt.minute>> ELSE <<dt.minute, dt.tzinfo[1]>>

\* the order of SQL on texts: by the first symbol that differs; a text comes
\* before every longer text that starts with it
TextLess(a, b) ==
    \/ \E i \in DOMAIN a \cap DOMAIN b :
          /\ \A j \in 1..(i - 1) : a[j] = b[j]
          /\ a[i] < b[i]
    \/ /\ Len(a) < Len(b)
       /\ \A j \in DOMAIN a : a[j] = b[j]

\* .where(date >= start, date < stop) on a set of Tweet rows
SelectByDate(rows, start, stop) ==
    {r \in rows : /\ ~TextLess(DateText(r.date), IsoFormat(start))
                  /\ TextLess(DateText(r.date), IsoFormat(stop))}

\* lines 519-520: the dates used when none is given
DefaultStart == Datetime(0, MST)
DefaultStop == Datetime(7 * MinutesPerDay - 1, MST)

\* objects_by_interval(Tweet, "date", interval, start_date, stop_date), with
\* dates that are None or Some(datetime): the list of what the generator
\* yields, each query given by the rows it selects
objects_by_interval(db, interval, start_date, stop_date) ==
    LET delta == timedelta(interval)
        start == to_utc(IF start_date = None THEN DefaultStart ELSE start_date[1])
        stop == to_utc(IF stop_date = None THEN DefaultStop ELSE stop_date[1])
        RECURSIVE loop(_, _)
        loop(interval_start, interval_stop) ==
            IF interval_stop.minute <= stop.minute
            THEN <<[bounds |-> <<interval_start, interval_stop>>,
                    query |-> SelectByDate(db.Tweet, interval_start, interval_stop)]>>
                     \o loop(Plus(interval_start, delta), Plus(interval_stop, delta))
            ELSE <<>>
    IN  loop(start, Plus(start, delta))

\* lines 350-363, 375-381, 392-398: the join of an entity table with a
\* through table and the tweets of the date range, grouped by entity: one
\* group per entity with a link to such a tweet, counting those links
GroupCounts(keys, through, selected) ==
    LET links(k) == {e \in DOMAIN through :
                        e[2] = k /\ \E t \in selected : t.id = e[1]}
    IN  {[key |-> k, count |-> BagCardinality([e \in links(k) |-> through[e]])] :
            k \in {x \in keys : links(x) # {}}}

\* .order_by(Count.desc()): the orders SQL may return the groups in
OrderedByCount(groups) ==
    {l \in Orders(groups) :
        \A i, j \in DOMAIN l : i < j => l[i].count >= l[j].count}

\* mention_counts(start_date, stop_date): the lists the query may give
mention_counts(db, start_date, stop_date) ==
    OrderedByCount(GroupCounts({u.id : u \in db.User}, db.tweet_mentions,
        SelectByDate(db.Tweet, to_utc(start_date), to_utc(stop_date))))

\* url_counts(start_date, stop_date)
url_counts(db, start_date, stop_date) ==
    OrderedByCount(GroupCounts(db.URL, db.tweet_urls,
        SelectByDate(db.Tweet, to_utc(start_date), to_utc(stop_date))))

\* hashtag_counts(start_date, stop_date)
hashtag_counts(db, start_date, stop_date) ==
    OrderedByCount(GroupCounts(db.Hashtag, db.tweet_tags,
        SelectByDate(db.Tweet, to_utc(start_date), to_utc(stop_date))))

\* Counter(iterable): the (key, count) pairs in the order in which the keys
\* were first seen
RECURSIVE Counter(_, _)
Counter(c, l) ==
    IF l = <<>> THEN c
    ELSE LET k == Head(l)
             counted == IF \E i \in DOMAIN c : c[i][1] = k
                        THEN [i \in DOMAIN c |->
                                IF c[i][1] = k THEN <<k, c[i][2] + 1>> ELSE c[i]]
                        ELSE Append(c, <<k, 1>>)
         IN  Counter(counted, Tail(l))

\* Counter.most_common(n): sorted by count, largest first, pairs of equal
\* count in the order of the Counter; the first n of them
RECURSIVE SortedByCount(_)
SortedByCount(c) ==
    IF c = <<>> THEN <<>>
    ELSE LET largest == CHOOSE i \in DOMAIN c :
                            /\ \A j \in DOMAIN c : c[j][2] <= c[i][2]
                            /\ \A j \in 1..(i - 1) : c[j][2] < c[i][2]
             others == [j \in 1..(Len(c) - 1) |->
                          IF j < largest THEN c[j] ELSE c[j + 1]]
         IN  <<c[largest]>> \o SortedByCount(others)
most_common(c, n) ==
    LET sorted == SortedByCount(c)
    IN  IF Len(sorted) <= n THEN sorted ELSE SubSeq(sorted, 1, n)

\* lines 429-430: results[User.get(id=k).username] = v for each pair, on an
\* OrderedDict: a key that is there keeps its place and gets the new value
RECURSIVE Results(_, _, _)
Results(db, results, pairs) ==
    IF pairs = <<>> THEN results
    ELSE LET username == (CHOOSE u \in db.User : u.id = Head(pairs)[1]).username
             v == Head(pairs)[2]
             put == IF \E i \in DOMAIN results : results[i][1] = username
                    THEN [i \in DOMAIN results |->
                            IF results[i][1] = username THEN <<username, v>>
                            ELSE results[i]]
                    ELSE Append(results, <<username, v>>)
         IN  Results(db, put, Tail(pairs))

\* retweet_counts(start_date, stop_date, n): the results the function may
\* give, one for each order in which the query may hand out its rows: the
\* tweets of the date range joined with the tweet they are a retweet of and
\* with its author
retweet_counts(db, start_date, stop_date, n) ==
    LET baseline == SelectByDate(db.Tweet, to_utc(start_date), to_utc(stop_date))
        rt(tweet) == CHOOSE r \in db.Tweet : r.id = tweet.retweet[1]
        query == {tweet \in baseline :
                     /\ tweet.retweet # None
                     /\ \E r \in db.Tweet : r.id = tweet.retweet[1]
                     /\ \E u \in db.User : u.id = rt(tweet).user}
    IN  {Results(db, <<>>,
                 most_common(Counter(<<>>, [i \in DOMAIN l |-> rt(l[i]).user]), n)) :
            l \in Orders(query)}

(***************************************************************************)
(* The query machine: tweets are loaded into the database and the queries  *)
(* are run on it.                                                          *)
(***************************************************************************)
\* the hours of the day at which the loaded tweets were created
QueryHours == {10, 11}

\* entities of a loaded tweet
Tagged ==
    [hashtags |-> <<Vote2>>, urls |-> <<<<"t", "/", "x">>>>, user_mentions |-> <<Bob2>>]

\* the payloads that are loaded: tweets with or without entities, and two
\* retweets of tweets whose authors have the same screen name
QueryPayloads ==
    {Status(id, Ann1, <<"h", "i">>, [hour |-> h, utcoffset |-> 0], e,
            None, None, None) :
        id \in {1, 2}, h \in QueryHours, e \in {NoEntities, Tagged}}
    \cup {Retweet(Status(3, Ann1, <<"h", "i">>, [hour |-> 11, utcoffset |-> 0],
                         NoEntities, None, None, None), Plain(1, Ann1)),
          Retweet(Status(4, Ann1, <<"h", "i">>, [hour |-> 11, utcoffset |-> 0],
                         NoEntities, None, None, None), Plain(2, Ann2))}

\* import_json of examples.py: create_tweet_from_dict on a payload
Load ==
    /\ Len(calls) < MaxRows
    /\ \E tweet \in QueryPayloads :
         \E r \in create_tweet_from_dict(DB, tweet, None) :
            Store(tweet, None, r)

\* a query was run with arguments and gave a value
Query(fn, args, value) == [fn |-> fn, args |-> args, value |-> value]

\* the date ranges the count queries are run on: from ten o'clock to eleven
\* or twelve, the start given as an aware or as a naive datetime
RangeStarts == {Datetime(10 * MinutesPerHour, utc), Datetime(10 * MinutesPerHour, None)}
RangeStops == {Datetime(h * MinutesPerHour, utc) : h \in {11, 12}}

\* the calls of objects_by_interval: interval, start and stop in minutes
IntervalCalls ==
    {<<"minute", 659, 661>>, <<"hour", 600, 660>>, <<"hour", 600, 720>>,
     <<"hour", 600, 690>>, <<"hour", 720, 600>>, <<"day", 600, 2040>>}

ByInterval ==
    /\ \/ \E c \in IntervalCalls :
            queried' = Query("objects_by_interval", <<c[1], Some(c[2]), Some(c[3])>>,
                objects_by_interval(DB, c[1], Some(Datetime(c[2], utc)),
                                    Some(Datetime(c[3], utc))))
       \/ queried' = Query("objects_by_interval", <<"day", None, None>>,
                objects_by_interval(DB, "day", None, None))
    /\ UNCHANGED <<tablevars, restvars, fetchvars, streamvars>>

MentionCounts ==
    /\ \E start \in RangeStarts, stop \in RangeStops :
         \E value \in mention_counts(DB, start, stop) :
            queried' = Query("mention_counts", <<start, stop>>, value)
    /\ UNCHANGED <<tablevars, restvars, fetchvars, streamvars>>

UrlCounts ==
    /\ \E start \in RangeStarts, stop \in RangeStops :
         \E value \in url_counts(DB, start, stop) :
            queried' = Query("url_counts", <<start, stop>>, value)
    /\ UNCHANGED <<tablevars, restvars, fetchvars, streamvars>>

HashtagCounts ==
    /\ \E start \in RangeStarts, stop \in RangeStops :
         \E value \in hashtag_counts(DB, start, stop) :
            queried' = Query("hashtag_counts", <<start, stop>>, value)
    /\ UNCHANGED <<tablevars, restvars, fetchvars, streamvars>>

RetweetCounts ==
    /\ \E start \in RangeStarts, stop \in RangeStops, n \in {1, 50} :
         \E value \in retweet_counts(DB, start, stop, n) :
            queried' = Query("retweet_counts", <<start, stop, n>>, value)
    /\ UNCHANGED <<tablevars, restvars, fetchvars, streamvars>>

NextQuery ==
    Load \/ ByInterval \/ MentionCounts \/ UrlCounts \/ HashtagCounts \/ RetweetCounts

SpecQuery == InitIngest /\ [][NextQuery]_vars

\* C34: the date of a stored tweet is the UTC wall-clock hour of the instant
\* its payload's created_at names: the hour written there less the zone
\* offset written there.
C34_DateStoredInUTC ==
    \A r \in Tweet :
        r.id \in DOMAIN origin
            => r.date = origin[r.id].tweet.created_at.hour
                            - origin[r.id].tweet.created_at.utcoffset

\* C35: the list of users that create_users_from_entities returns for the
\* entities of an ingested payload holds no user id twice, and the tweet the
\* call stored is linked once to each user its payload mentions.
C35_MentionedOnce ==
    \A j \in DOMAIN calls :
        LET p == calls[j].tweet
            before == calls[j].before @@ [first_ref |-> <<>>, origin |-> <<>>]
        IN  /\ \A m \in create_users_from_entities(before, p.entities) :
                   \A a, b \in DOMAIN m.users : a # b => m.users[a] # m.users[b]
            /\ RowsWithId(calls[j].before.Tweet, p.id) = {}
                   => \A u \in MentionedIds(p) :
                          /\ <<p.id, u>> \in DOMAIN After(j).tweet_mentions
                          /\ After(j).tweet_mentions[<<p.id, u>>] = 1

\* C36: a call whose payload's id was stored before it adds no User, Hashtag
\* or URL row.
C36_RejectedAddsNothing ==
    \A j \in DOMAIN calls :
        RowsWithId(calls[j].before.Tweet, calls[j].tweet.id) # {}
            => /\ After(j).User = calls[j].before.User
               /\ After(j).Hashtag = calls[j].before.Hashtag
               /\ After(j).URL = calls[j].before.URL

(***************************************************************************)
(* Properties of the queries.                                              *)
(***************************************************************************)
\* the minute at which a stored tweet was created
Minute(t) == t.date * MinutesPerHour

\* the tweets created from one minute up to, not including, another
CreatedIn(from, to) == {t \in Tweet : from <= Minute(t) /\ Minute(t) < to}

\* objects_by_interval was called with a start and a stop
IntervalsQueried ==
    /\ queried.fn = "objects_by_interval"
    /\ queried.args[2] # None
    /\ queried.args[3] # None

\* C25: called with start T and stop T + k g, objects_by_interval yields the
\* k windows [T + i g, T + (i + 1) g), i = 0..k-1, in this order, and every
\* tweet created in [T, stop) is in the subset of exactly one window.
C25_WindowsPartitionRange ==
    IntervalsQueried =>
        LET T == queried.args[2][1]
            stop == queried.args[3][1]
            g == timedelta(queried.args[1])
            k == (stop - T) \div g
            windows == queried.value
        IN  (T <= stop /\ stop = T + k * g)
                => /\ Len(windows) = k
                   /\ \A i \in 1..k :
                          windows[i].bounds = <<Datetime(T + (i - 1) * g, utc),
                                                Datetime(T + i * g, utc)>>
                   /\ \A t \in CreatedIn(T, stop) :
                          Cardinality({i \in DOMAIN windows : t \in windows[i].query}) = 1

\* C26: called with start <= stop, objects_by_interval yields
\* floor((stop - start) / g) windows, none of which ends after stop, and a
\* tweet created in the rest of the range behind the last window is in no
\* window's subset.
C26_TrailingRemainderDropped ==
    IntervalsQueried =>
        LET start == queried.args[2][1]
            stop == queried.args[3][1]
            g == timedelta(queried.args[1])
            k == (stop - start) \div g
            windows == queried.value
        IN  start <= stop
                => /\ Len(windows) = k
                   /\ \A i \in DOMAIN windows : windows[i].bounds[2].minute <= stop
                   /\ \A t \in CreatedIn(start + k * g, stop) :
                          \A i \in DOMAIN windows : t \notin windows[i].query

\* C27: retweet_counts(start, stop, n) has one entry for each of the n
\* authors with the most retweets of their tweets created in [start, stop)
\* (for each author, when there are fewer than n), under the author's
\* username and with the number of those retweets, largest first.
C27_RetweetsPerAuthor ==
    queried.fn = "retweet_counts" =>
        LET start == queried.args[1].minute
            stop == queried.args[2].minute
            n == queried.args[3]
            results == queried.value
            retweets(a) == {t \in CreatedIn(start, stop) :
                               /\ t.retweet # None
                               /\ \E o \in Tweet : o.id = t.retweet[1] /\ o.user = a}
            authors == {a \in {u.id : u \in User} : retweets(a) # {}}
            username(a) == (CHOOSE u \in User : u.id = a).username
        IN  \E top \in SUBSET authors :
               /\ Cardinality(top) = IF Cardinality(authors) <= n
                                     THEN Cardinality(authors) ELSE n
               /\ \A a \in top, b \in authors \ top :
                      Cardinality(retweets(a)) >= Cardinality(retweets(b))
               /\ \E l \in Orders(top) :
                      /\ Len(results) = Len(l)
                      /\ \A i \in DOMAIN l :
                             results[i] = <<username(l[i]), Cardinality(retweets(l[i]))>>
                      /\ \A i, j \in DOMAIN l :
                             i < j => results[i][2] >= results[j][2]

\* C28: mention_counts, url_counts and hashtag_counts (start, stop) return
\* the users, urls and hashtags linked to a tweet created in [start, stop),
\* each once and with the number of those tweets, largest first.
C28_CountsOverHalfOpenRange ==
    queried.fn \in {"mention_counts", "url_counts", "hashtag_counts"} =>
        LET start == queried.args[1].minute
            stop == queried.args[2].minute
            through == CASE queried.fn = "mention_counts" -> tweet_mentions
                         [] queried.fn = "url_counts" -> tweet_urls
                         [] queried.fn = "hashtag_counts" -> tweet_tags
            linked(k) == {t \in CreatedIn(start, stop) : <<t.id, k>> \in DOMAIN through}
            entities == {k \in {e[2] : e \in DOMAIN through} : linked(k) # {}}
            counts == queried.value
        IN  /\ Len(counts) = Cardinality(entities)
            /\ {counts[i].key : i \in DOMAIN counts} = entities
            /\ \A i \in DOMAIN counts :
                   counts[i].count = Cardinality(linked(counts[i].key))
            /\ \A i, j \in DOMAIN counts :
                   i < j => counts[i].count >= counts[j].count

(***************************************************************************)
(* Properties of the lines that stream reads.                              *)
(***************************************************************************)
\* C21: a disconnect notice that is read is followed by the close of the
\* response and, before the next connect attempt, by a sleep of backoff.
C21_NoticeBacksOff ==
    \A i \in DOMAIN stream_log :
        stream_log[i].op = "notice"
            => /\ i + 1 <= Len(stream_log) => stream_log[i + 1].op = "close"
               /\ \A j \in DOMAIN stream_log :
                      (j > i /\ stream_log[j].op = "post")
                          => \E k \in (i + 1)..(j - 1) : stream_log[k].op = "sleep"

\* a line that json.loads rejects, and a tweet
Garbage == Line("garbage", {}, None)
TweetLine == Line("json", {"text"}, None)

\* the handlers that a line is to be handed to: none for a blank line, for
\* a line that does not parse and for a disconnect notice; the tweet handler
\* for any other line with a text; the notification handler for any other
\* line that is not empty; each only when it is registered
Expected(line) ==
    IF line.kind # "json" \/ "disconnect" \in line.keys THEN <<>>
    ELSE IF "text" \in line.keys
         THEN (IF on_tweet THEN <<"on_tweet">> ELSE <<>>)
    ELSE IF line.keys # {} /\ on_notification THEN <<"on_notification">>
    ELSE <<>>

\* C22: a line that does not parse is handed to no handler and leaves
\* stream() reading the same open response; the line read after it is handed
\* to the handler that it is to be handed to.
C22_BadRecordSkipped ==
    \A i \in DOMAIN records :
        records[i].line = Garbage
            => /\ records[i].handlers = <<>>
               /\ records[i].pc_after = "for"
               /\ ~records[i].closed_after
               /\ i < Len(records)
                    => records[i + 1].handlers = Expected(records[i + 1].line)

\* a tweet was handed to the tweet handler right after a line that did not
\* parse
C22_Witness ==
    /\ Len(records) = 2
    /\ records[1].line = Garbage
    /\ records[2].line = TweetLine
    /\ records[2].handlers = <<"on_tweet">>
    /\ stream_pc = "for"

\* C23: KeyboardInterrupt or SystemExit, raised by a handler or while a line
\* is awaited, leaves stream() with the response closed: the close comes
\* right before the exception, and nothing follows it but another call of
\* stream(): no sleep and no connect attempt.
C23_InterruptLeavesStream ==
    /\ \A i \in DOMAIN records :
           records[i].exc \in {"KeyboardInterrupt", "SystemExit"}
               => records[i].pc_after = "raised" /\ records[i].closed_after
    /\ \A i \in DOMAIN stream_log :
           stream_log[i].op \in {"KeyboardInterrupt", "SystemExit"}
               => /\ i > 1 => stream_log[i - 1].op = "close"
                  /\ IF i = Len(stream_log)
                     THEN stream_pc = "raised" /\ stream[1].closed
                     ELSE stream_log[i + 1].op = "call"

\* the tweet handler has raised SystemExit, which has left stream()
C23_Witness ==
    /\ records # <<>>
    /\ records[Len(records)].handlers = <<"on_tweet">>
    /\ records[Len(records)].exc = "SystemExit"
    /\ stream_pc = "raised"
    /\ stream_log[Len(stream_log)].op = "SystemExit"

\* C24: the parameters of a connect request hold at most one of track and
\* follow, and neither when the request goes to the sample endpoint, whatever
\* calls of stream() came before.
C24_OneFilterPerRequest ==
    posted # None
        => /\ ~({"track", "follow"} \subseteq DOMAIN posted[1].data)
           /\ posted[1].url = SAMPLE_URL
                => DOMAIN posted[1].data \cap {"track", "follow"} = {}

\* C29: every line read is handed to at most one handler, and to the one it
\* is to be handed to: a blank line and a disconnect notice, with or without
\* a text, to none; any other line with a text to the tweet handler and
\* never to the notification handler; any other line that is not empty to
\* the notification handler.
C29_OneHandlerPerRecord ==
    \A i \in DOMAIN records :
        /\ Len(records[i].handlers) <= 1
        /\ records[i].handlers = Expected(records[i].line)

\* a line with a text and another key was read while only the notification
\* handler was registered, and a notice with a text after it: no handler was
\* called
C29_Witness ==
    /\ ~on_tweet /\ on_notification
    /\ Len(records) = 2
    /\ records[1].line = Line("json", {"text", "event"}, None)
    /\ records[1].handlers = <<>>
    /\ records[2].line = Line("json", {"disconnect", "text"}, Some(4))
    /\ records[2].handlers = <<>>

\* C30: a connect answer or a disconnect notice with one of the codes 401,
\* 403, 404, 406, 413, 416 is followed by the close of the response and by
\* IrrecoverableStreamException leaving stream(), and by no connect attempt
\* unless stream() is called anew.
C30_FatalCodeLeavesStream ==
    \A i \in DOMAIN stream_log :
        (stream_log[i].op \in {"post", "notice"} /\ stream_log[i].code \in Irrecoverable)
            => /\ i + 2 <= Len(stream_log)
               /\ stream_log[i + 1].op = "close"
               /\ stream_log[i + 2].op = "IrrecoverableStreamException"
               /\ i + 3 <= Len(stream_log) => stream_log[i + 3].op = "call"

\* C31: an exception that a handler raises leaves stream(): after the line
\* whose handler raised it, stream() is no longer running.
C31_HandlerExceptionSurfaces ==
    \A i \in DOMAIN records :
        (records[i].handlers # <<>> /\ records[i].exc = "Exception")
            => records[i].pc_after = "raised"

\* C32: between two connect attempts of one call of stream() there is a
\* sleep of backoff.
C32_WaitBetweenConnects ==
    \A i, j \in DOMAIN stream_log :
        (/\ i < j
         /\ stream_log[i].op = "post"
         /\ stream_log[j].op = "post"
         /\ \A k \in (i + 1)..(j - 1) : stream_log[k].op # "call")
            => \E k \in (i + 1)..(j - 1) : stream_log[k].op = "sleep"

(***************************************************************************)
(* Properties of throttled_call, continued.                                *)
(***************************************************************************)
\* the time.sleep that runs now returns while the clock is still modelled
SleepEnds == wake <= MaxTime

\* C11: a timed-out attempt leaves rate_limit as the attempt found it and
\* does not end the call with an exception; it is followed by another
\* attempt; once the transport has answered an attempt no other attempt is
\* made and the call returns that answer.
C11_TimeoutsRetried ==
    /\ [](sent.made /\ sent.outcome = "timeout"
            => /\ rate_limit = [calls |-> sent.calls, expires |-> sent.expires]
               /\ pc \in {"pause", "loop", "try"})
    /\ [](sent.made /\ sent.outcome = "response"
            => /\ pc \in {"pause", "idle"}
               /\ pc = "idle" => returned = [made |-> TRUE,
                                            response |-> sent.response[1]])
    /\ (sent.made /\ sent.outcome = "timeout" /\ SleepEnds)
            ~> (sent.made /\ sent.outcome = "none")
    /\ (sent.made /\ sent.outcome = "response" /\ SleepEnds)
            ~> (pc = "idle")

\* the third attempt of a call was answered after two timeouts in a row, and
\* the call has returned
C11_Witness ==
    /\ pc = "idle"
    /\ sent.made
    /\ sent.attempt >= 3
    /\ sent.outcome = "response"

\* C12: when throttled_call has returned a response that carries both
\* x-rate-limit-remaining and x-rate-limit-reset, rate_limit holds exactly
\* these two values, whatever it held before.
C12_BudgetFromResponse ==
    (/\ pc = "idle"
     /\ returned.made
     /\ returned.response.remaining # None
     /\ returned.response.reset # None)
        => rate_limit = [calls |-> returned.response.remaining[1],
                         expires |-> returned.response.reset[1]]

\* the second call returned a response with both values, and it differs in
\* both from the budget the call's request left with
C12_Witness ==
    /\ pc = "idle"
    /\ nrequests >= 2
    /\ returned.made
    /\ returned.response.remaining # None
    /\ returned.response.reset # None
    /\ sent.made
    /\ sent.calls # returned.response.remaining[1]
    /\ sent.expires # returned.response.reset[1]
    /\ sent.calls # 180

\* C33: once an attempt was made, throttled_call makes no other attempt and
\* does not hand back the response before a second has passed since that
\* attempt, whether it was answered or timed out.
C33_PauseAfterEveryAttempt ==
    /\ (sent.made /\ pc \in {"idle", "loop", "wait_for_limit", "limit_sleep", "try"})
           => clock >= sent.at + PacingDelay
    /\ (sent.made /\ pc = "pause") => wake >= sent.at + PacingDelay

\* a timed-out attempt is about to be followed by another, one second later
C33_Witness ==
    /\ pc = "try"
    /\ sent.made
    /\ sent.outcome = "timeout"
    /\ clock = sent.at + PacingDelay

\* C39: the wait wait_for_limit hands to time.sleep is never negative: when
\* throttled_call has decided to wait, the reset is still ahead at the second
\* reading of the clock, so no call fails inside the quota wait.
C39_QuotaWaitNotNegative ==
    waited => /\ time_to_reset >= 0
              /\ pc # "raised"

=============================================================================
